---- MODULE Spec2Model ----
(***************************************************************************)
(* Model of the remote inventory pipeline (src/src/app.rs) and of the      *)
(* deployment-script codec (src/src/docker/script_parser.rs,               *)
(* src/src/docker/discovery.rs) of sshing.                                 *)
(*                                                                         *)
(* Texts are TLA+ strings; the text functions work on characters with      *)
(* SubSeq, Len and \o, the way the Rust code works on str.  The regular    *)
(* expressions of the code are written as token lists and matched by a     *)
(* small backtracking matcher.                                             *)
(***************************************************************************)
EXTENDS Integers, Sequences, FiniteSets, TLC

\* ------------------------------------------------------------------------
\* Character and string helpers (Rust str methods used by the code)
\* ------------------------------------------------------------------------

None == [none |-> TRUE]

Lower == {"a","b","c","d","e","f","g","h","i","j","k","l","m",
          "n","o","p","q","r","s","t","u","v","w","x","y","z"}

Upper == {"A","B","C","D","E","F","G","H","I","J","K","L","M",
          "N","O","P","Q","R","S","T","U","V","W","X","Y","Z"}

Digit == {"0","1","2","3","4","5","6","7","8","9"}

WordChars == Lower \cup Upper \cup Digit \cup {"_"}

Space == {" ", "\t", "\n", "\r", "\f"}

Ch(s, i) == SubSeq(s, i, i)

\* the character classes of the regular expressions in script_parser.rs
InClass(c, cls) ==
    CASE cls = "space"      -> c \in Space                            \* \s
      [] cls = "nonspace"   -> c \notin Space                         \* \S
      [] cls = "nonspacebs" -> c \notin Space \cup {"\\"}             \* [^\s\\]
      [] cls = "noncolon"   -> c \notin Space \cup {":"}              \* [^:\s]
      [] cls = "digit"      -> c \in Digit                            \* \d
      [] cls = "word"       -> c \in WordChars                        \* \w
      [] cls = "keystart"   -> c \in Lower \cup Upper \cup {"_"}      \* [A-Za-z_]
      [] cls = "image"      -> c \in WordChars \cup {".", "/", "-"}   \* [a-zA-Z0-9._/-]
      [] cls = "tag"        -> c \in WordChars \cup {".", "-"}        \* [a-zA-Z0-9._-]
      [] cls = "notdq"      -> c # "\""                               \* [^"]
      [] cls = "notsq"      -> c # "'"                                \* [^']
      [] cls = "notnl"      -> c # "\n"                               \* [^\n]
      [] OTHER              -> FALSE

StartsAt(s, i, p) ==
    /\ i >= 1
    /\ i + Len(p) - 1 <= Len(s)
    /\ SubSeq(s, i, i + Len(p) - 1) = p

StartsWith(s, p) == StartsAt(s, 1, p)

EndsWith(s, p) == Len(p) <= Len(s) /\ SubSeq(s, Len(s) - Len(p) + 1, Len(s)) = p

\* whether position j of s passes a test: the literal arg starts there
\* ("lit"), or the character there is outside the class arg ("out")
TestAt(s, j, kind, arg) ==
    IF kind = "lit" THEN StartsAt(s, j, arg) ELSE ~InClass(Ch(s, j), arg)

OrElse(a, b) == IF a # 0 THEN a ELSE b

\* the first position in lo..hi passing the test, 0 if none (a left-to-right
\* scan, halving the range)
RECURSIVE FirstAt(_, _, _, _, _)
FirstAt(s, lo, hi, kind, arg) ==
    IF lo > hi THEN 0
    ELSE IF lo = hi THEN (IF TestAt(s, lo, kind, arg) THEN lo ELSE 0)
    ELSE OrElse(FirstAt(s, lo, (lo + hi) \div 2, kind, arg),
                FirstAt(s, (lo + hi) \div 2 + 1, hi, kind, arg))

\* the last position in lo..hi passing the test, 0 if none
RECURSIVE LastAt(_, _, _, _, _)
LastAt(s, lo, hi, kind, arg) ==
    IF lo > hi THEN 0
    ELSE IF lo = hi THEN (IF TestAt(s, lo, kind, arg) THEN lo ELSE 0)
    ELSE OrElse(LastAt(s, (lo + hi) \div 2 + 1, hi, kind, arg),
                LastAt(s, lo, (lo + hi) \div 2, kind, arg))

\* str::find from position i: the index of the first occurrence, 0 if none
FindFrom(s, p, i) == FirstAt(s, i, Len(s) - Len(p) + 1, "lit", p)

Contains(s, p) == FindFrom(s, p, 1) # 0

EndOr(j, i, n) == IF j = 0 THEN (IF i > n THEN i ELSE n + 1) ELSE j

\* end (exclusive) of the longest run of characters of a class starting at i
RunEnd(s, i, cls) == EndOr(FirstAt(s, i, Len(s), "out", cls), i, Len(s))

\* index of the first non-whitespace character at or after i (Len(s)+1 if none)
SkipSpace(s, i) == RunEnd(s, i, "space")

TrimStart(s) == SubSeq(s, SkipSpace(s, 1), Len(s))

TrimEnd(s) == SubSeq(s, 1, LastAt(s, 1, Len(s), "out", "space"))

Trim(s) == TrimStart(TrimEnd(s))

\* str::trim_end_matches('\\')
RECURSIVE TrimEndBackslashes(_)
TrimEndBackslashes(s) ==
    IF EndsWith(s, "\\") THEN TrimEndBackslashes(SubSeq(s, 1, Len(s) - 1)) ELSE s

\* str::trim_matches(c) for a one-character c
RECURSIVE TrimMatches(_, _)
TrimMatches(s, c) ==
    IF StartsWith(s, c) THEN TrimMatches(SubSeq(s, 2, Len(s)), c)
    ELSE IF EndsWith(s, c) THEN TrimMatches(SubSeq(s, 1, Len(s) - 1), c)
    ELSE s

\* str::trim_start_matches(c) for a one-character c
RECURSIVE TrimStartMatches(_, _)
TrimStartMatches(s, c) ==
    IF StartsWith(s, c) THEN TrimStartMatches(SubSeq(s, 2, Len(s)), c) ELSE s

\* str::split(sep): the pieces from position i on, j being the next separator
RECURSIVE SplitFrom(_, _, _)
SplitAt(s, sep, i, j) ==
    IF j = 0 THEN << SubSeq(s, i, Len(s)) >>
    ELSE << SubSeq(s, i, j - 1) >> \o SplitFrom(s, sep, j + Len(sep))

SplitFrom(s, sep, i) == SplitAt(s, sep, i, FindFrom(s, sep, i))

Split(s, sep) == SplitFrom(s, sep, 1)

\* str::lines() on the pieces between "\n": a final empty piece is dropped,
\* and a "\r" before a "\n" belongs to the line ending
LinesOf(parts) ==
    [i \in 1..(IF parts[Len(parts)] = "" THEN Len(parts) - 1 ELSE Len(parts)) |->
        IF i < Len(parts) /\ EndsWith(parts[i], "\r")
        THEN SubSeq(parts[i], 1, Len(parts[i]) - 1)
        ELSE parts[i]]

Lines(s) == LinesOf(Split(s, "\n"))

\* [String]::join(sep)
RECURSIVE JoinFrom(_, _, _)
JoinFrom(ls, sep, i) ==
    IF i > Len(ls) THEN ""
    ELSE IF i = Len(ls) THEN ls[i]
    ELSE ls[i] \o sep \o JoinFrom(ls, sep, i + 1)

Join(ls, sep) == JoinFrom(ls, sep, 1)

\* str::replace(from, to) for a one-character from
RECURSIVE ReplaceIn(_, _, _, _, _)
ReplaceIn(s, from, to, lo, hi) ==
    IF lo > hi THEN ""
    ELSE IF lo = hi THEN (IF Ch(s, lo) = from THEN to ELSE Ch(s, lo))
    ELSE ReplaceIn(s, from, to, lo, (lo + hi) \div 2)
         \o ReplaceIn(s, from, to, (lo + hi) \div 2 + 1, hi)

Replace(s, from, to) == ReplaceIn(s, from, to, 1, Len(s))

UpperSeq == "ABCDEFGHIJKLMNOPQRSTUVWXYZ"
LowerSeq == "abcdefghijklmnopqrstuvwxyz"

LowerChar(c) ==
    IF c \in Upper THEN Ch(LowerSeq, FindFrom(UpperSeq, c, 1)) ELSE c

\* str::to_lowercase
RECURSIVE ToLowerIn(_, _, _)
ToLowerIn(s, lo, hi) ==
    IF lo > hi THEN ""
    ELSE IF lo = hi THEN LowerChar(Ch(s, lo))
    ELSE ToLowerIn(s, lo, (lo + hi) \div 2) \o ToLowerIn(s, (lo + hi) \div 2 + 1, hi)

ToLower(s) == ToLowerIn(s, 1, Len(s))

DigitVal(c) == CHOOSE n \in 0..9 : ToString(n) = c

\* the value of a digit string, read left to right; -1 when it exceeds max
RECURSIVE ParseNat(_, _, _, _)
ParseNat(s, i, acc, max) ==
    IF i > Len(s) THEN acc
    ELSE IF acc > (max - DigitVal(Ch(s, i))) \div 10 THEN -1
    ELSE ParseNat(s, i + 1, acc * 10 + DigitVal(Ch(s, i)), max)

AllDigits(s) == s # "" /\ RunEnd(s, 1, "digit") = Len(s) + 1

U16Max == 65535

\* str::parse::<u16>() of a digit string: the number, or -1 when it overflows
ParseU16(s) == ParseNat(s, 1, 0, U16Max)

I32Max == 2147483647

\* the magnitude n of the digits fits, or the text is that of i32::MIN
I32Of(neg, body, n) ==
    IF n >= 0 THEN [ok |-> TRUE, value |-> IF neg THEN 0 - n ELSE n]
    ELSE IF neg /\ TrimStartMatches(body, "0") = "2147483648"
    THEN [ok |-> TRUE, value |-> (0 - I32Max) - 1]
    ELSE [ok |-> FALSE, value |-> 0]

ParseSigned(neg, body) ==
    IF AllDigits(body) THEN I32Of(neg, body, ParseNat(body, 1, 0, I32Max))
    ELSE [ok |-> FALSE, value |-> 0]

\* str::parse::<i32>(): an optional sign and digits
ParseI32(s) ==
    ParseSigned(StartsWith(s, "-"),
                IF StartsWith(s, "-") \/ StartsWith(s, "+") THEN SubSeq(s, 2, Len(s)) ELSE s)

\* ------------------------------------------------------------------------
\* Regular expressions (the regex crate, for the patterns the code uses)
\* ------------------------------------------------------------------------

\* A pattern is a sequence of tokens:
\*   Lit(v)       the literal text v
\*   One(cls)     one character of a class
\*   Run(cls, n)  cls* (n = 0) or cls+ (n = 1), greedy
\*   Lazy(cls)    cls*?, lazy
\*   Open, Close  the parentheses of a capture group (groups do not nest)
\*   Alt(a, b)    (?:a|b), a and b being token sequences
\*   Unset        stands in an Alt branch for a capture group that is skipped
\*   AtEnd        $
Tok(t, v, min, a, b) == [t |-> t, v |-> v, min |-> min, a |-> a, b |-> b]

Lit(v) == Tok("lit", v, 0, << >>, << >>)

One(cls) == Tok("one", cls, 0, << >>, << >>)

Run(cls, min) == Tok("run", cls, min, << >>, << >>)

Lazy(cls) == Tok("lazy", cls, 0, << >>, << >>)

Open == Tok("open", "", 0, << >>, << >>)

Close == Tok("close", "", 0, << >>, << >>)

Unset == Tok("unset", "", 0, << >>, << >>)

AtEnd == Tok("end", "", 0, << >>, << >>)

Alt(a, b) == Tok("alt", "", 0, a, b)

\* ( ... )?
OptGroup(toks) == Alt(<< Open >> \o toks \o << Close >>, << Unset >>)

\* a match: where it starts and ends (exclusive) and the spans of its groups
NoMatch == [ok |-> FALSE, start |-> 0, end |-> 0, caps |-> << >>]

FirstOk(a, b) == IF a.ok THEN a ELSE b

RECURSIVE MatchSeq(_, _, _, _, _)

\* the ends lo..hi of a repetition, tried longest first (greedy) or shortest
\* first (lazy), the rest of the pattern deciding
RECURSIVE TryRange(_, _, _, _, _, _, _)
TryRange(s, lo, hi, greedy, toks, k, caps) ==
    IF lo > hi THEN NoMatch
    ELSE IF lo = hi THEN MatchSeq(s, lo, toks, k, caps)
    ELSE IF greedy
    THEN FirstOk(TryRange(s, (lo + hi) \div 2 + 1, hi, greedy, toks, k, caps),
                 TryRange(s, lo, (lo + hi) \div 2, greedy, toks, k, caps))
    ELSE FirstOk(TryRange(s, lo, (lo + hi) \div 2, greedy, toks, k, caps),
                 TryRange(s, (lo + hi) \div 2 + 1, hi, greedy, toks, k, caps))

Rest(toks, k) == SubSeq(toks, k + 1, Len(toks))

MatchTok(s, i, toks, k, caps, t) ==
    CASE t.t = "lit" ->
            IF StartsAt(s, i, t.v) THEN MatchSeq(s, i + Len(t.v), toks, k + 1, caps)
            ELSE NoMatch
      [] t.t = "one" ->
            IF i <= Len(s) /\ InClass(Ch(s, i), t.v) THEN MatchSeq(s, i + 1, toks, k + 1, caps)
            ELSE NoMatch
      [] t.t = "run" ->
            TryRange(s, i + t.min, RunEnd(s, i, t.v), TRUE, toks, k + 1, caps)
      [] t.t = "lazy" ->
            TryRange(s, i, RunEnd(s, i, t.v), FALSE, toks, k + 1, caps)
      [] t.t = "open" ->
            MatchSeq(s, i, toks, k + 1, Append(caps, [s |-> i, e |-> 0]))
      [] t.t = "close" ->
            MatchSeq(s, i, toks, k + 1, [caps EXCEPT ![Len(caps)].e = i])
      [] t.t = "unset" ->
            MatchSeq(s, i, toks, k + 1, Append(caps, [s |-> 0, e |-> 0]))
      [] t.t = "end" ->
            IF i = Len(s) + 1 THEN MatchSeq(s, i, toks, k + 1, caps) ELSE NoMatch
      [] t.t = "alt" ->
            FirstOk(MatchSeq(s, i, t.a \o Rest(toks, k), 1, caps),
                    MatchSeq(s, i, t.b \o Rest(toks, k), 1, caps))

\* the tokens from the k-th on match at position i
MatchSeq(s, i, toks, k, caps) ==
    IF k > Len(toks) THEN [ok |-> TRUE, start |-> 0, end |-> i, caps |-> caps]
    ELSE MatchTok(s, i, toks, k, caps, toks[k])

\* every pattern of the code starts with a literal, after an opening
\* parenthesis at most: a match can only start where that literal occurs
Lead(toks) == IF toks[1].t = "lit" THEN toks[1].v ELSE toks[2].v

\* Regex::captures from position pos on: the leftmost match
RECURSIVE Find(_, _, _)
FindTry(s, toks, j, m) ==
    IF m.ok THEN [m EXCEPT !.start = j] ELSE Find(s, j + 1, toks)

FindAt(s, toks, j) ==
    IF j = 0 THEN NoMatch ELSE FindTry(s, toks, j, MatchSeq(s, j, toks, 1, << >>))

Find(s, pos, toks) == FindAt(s, toks, FindFrom(s, Lead(toks), pos))

\* Regex::is_match
IsMatch(s, toks) == Find(s, 1, toks).ok

\* Captures::get(n): whether the group took part, and its text
HasCap(m, n) == m.caps[n].s # 0

Cap(s, m, n) == SubSeq(s, m.caps[n].s, m.caps[n].e - 1)

\* regex::Captures::expand on a replacement string: $name and ${name} are
\* capture references ($$ is a literal $); a name that is no group expands
\* to nothing.  groups[1] is group 0, groups[2] group 1, groups[3] group 2.
GroupAt(groups, n) == IF n >= 0 /\ n + 1 <= Len(groups) THEN groups[n + 1] ELSE ""

GroupText(groups, name) ==
    IF AllDigits(name) THEN GroupAt(groups, ParseNat(name, 1, 0, Len(groups))) ELSE ""

RECURSIVE Expand(_, _, _)
ExpandBrace(rep, d, groups, close) ==
    IF close = 0 THEN "$" \o Expand(rep, d + 1, groups)
    ELSE GroupText(groups, SubSeq(rep, d + 2, close - 1)) \o Expand(rep, close + 1, groups)

ExpandName(rep, d, groups, ne) ==
    IF ne = d + 1 THEN "$" \o Expand(rep, d + 1, groups)
    ELSE GroupText(groups, SubSeq(rep, d + 1, ne - 1)) \o Expand(rep, ne, groups)

ExpandRef(rep, d, groups) ==
    IF StartsAt(rep, d + 1, "$") THEN "$" \o Expand(rep, d + 2, groups)
    ELSE IF StartsAt(rep, d + 1, "{")
    THEN ExpandBrace(rep, d, groups, FindFrom(rep, "}", d + 2))
    ELSE ExpandName(rep, d, groups, RunEnd(rep, d + 1, "word"))

ExpandAt(rep, i, groups, d) ==
    IF d = 0 THEN SubSeq(rep, i, Len(rep))
    ELSE SubSeq(rep, i, d - 1) \o ExpandRef(rep, d, groups)

Expand(rep, i, groups) == ExpandAt(rep, i, groups, FindFrom(rep, "$", i))

\* Regex::replace: the first match is replaced by the expanded replacement
ReplaceMatch(s, m, rep) ==
    SubSeq(s, 1, m.start - 1)
    \o Expand(rep, 1, << SubSeq(s, m.start, m.end - 1), Cap(s, m, 1), Cap(s, m, 2) >>)
    \o SubSeq(s, m.end, Len(s))

\* ------------------------------------------------------------------------
\* parse_script and its extractors (script_parser.rs)
\* ------------------------------------------------------------------------

NoString == [some |-> FALSE, value |-> ""]

SomeString(v) == [some |-> TRUE, value |-> v]

\* the first of the patterns that matches gives its group 1
RECURSIVE FirstCap(_, _, _)
FirstCapOr(s, pats, k, m) ==
    IF m.ok THEN SomeString(Cap(s, m, 1)) ELSE FirstCap(s, pats, k + 1)

FirstCap(s, pats, k) ==
    IF k > Len(pats) THEN NoString ELSE FirstCapOr(s, pats, k, Find(s, 1, pats[k]))

\* {}='([^']*)'   {}="([^"]*)"   {}=(\S+)
VariablePatterns(var_name) ==
    << << Lit(var_name \o "='"), Open, Run("notsq", 0), Close, Lit("'") >>,
       << Lit(var_name \o "=\""), Open, Run("notdq", 0), Close, Lit("\"") >>,
       << Lit(var_name \o "="), Open, Run("nonspace", 1), Close >> >>

extract_variable(content, var_name) == FirstCap(content, VariablePatterns(var_name), 1)

\* --name=([^\s\\]+)   --name\s+([^\s\\]+)
NameFlagPatterns ==
    << << Lit("--name="), Open, Run("nonspacebs", 1), Close >>,
       << Lit("--name"), Run("space", 1), Open, Run("nonspacebs", 1), Close >> >>

\* a pattern whose match is a $variable is passed over
RECURSIVE NameFlag(_, _)
NameFlagPick(s, k, name) ==
    IF ~StartsWith(name, "$") THEN SomeString(name) ELSE NameFlag(s, k + 1)

NameFlagOr(s, k, m) ==
    IF m.ok THEN NameFlagPick(s, k, TrimMatches(TrimMatches(Cap(s, m, 1), "\""), "'"))
    ELSE NameFlag(s, k + 1)

NameFlag(s, k) ==
    IF k > Len(NameFlagPatterns) THEN NoString
    ELSE NameFlagOr(s, k, Find(s, 1, NameFlagPatterns[k]))

extract_container_name_flag(content) == NameFlag(content, 1)

EnvVar(k, v) == [key |-> k, value |-> v]

HasKey(env_vars, k) == \E i \in 1..Len(env_vars) : env_vars[i].key = k

\* [A-Za-z_][A-Za-z0-9_]*
KeyName == << One("keystart"), Run("word", 0) >>

\* -e\s+(KEY)="([^"]*)"   -e\s+(KEY)='([^']*)'   -e\s*(KEY)=(\S+)   -e(KEY)=(\S+)
EnvPatterns ==
    << << Lit("-e"), Run("space", 1), Open >> \o KeyName
          \o << Close, Lit("=\""), Open, Run("notdq", 0), Close, Lit("\"") >>,
       << Lit("-e"), Run("space", 1), Open >> \o KeyName
          \o << Close, Lit("='"), Open, Run("notsq", 0), Close, Lit("'") >>,
       << Lit("-e"), Run("space", 0), Open >> \o KeyName
          \o << Close, Lit("="), Open, Run("nonspace", 1), Close >>,
       << Lit("-e"), Open >> \o KeyName
          \o << Close, Lit("="), Open, Run("nonspace", 1), Close >> >>

PushEnv(env_vars, key, value) ==
    IF HasKey(env_vars, key) THEN env_vars ELSE Append(env_vars, EnvVar(key, value))

\* captures_iter of one pattern, pushing the keys not seen yet
RECURSIVE ScanEnv(_, _, _, _)
ScanEnvAt(s, toks, acc, m) ==
    IF ~m.ok THEN acc
    ELSE ScanEnv(s, m.end, toks, PushEnv(acc, Cap(s, m, 1), Cap(s, m, 2)))

ScanEnv(s, pos, toks, acc) == ScanEnvAt(s, toks, acc, Find(s, pos, toks))

RECURSIVE EnvOfPatterns(_, _, _)
EnvOfPatterns(s, k, acc) ==
    IF k > Len(EnvPatterns) THEN acc
    ELSE EnvOfPatterns(s, k + 1, ScanEnv(s, 1, EnvPatterns[k], acc))

extract_env_vars(content) == EnvOfPatterns(content, 1, << >>)

\* -v\s+([^:\s]+):([^:\s]+)(:ro)?
VolumePattern ==
    << Lit("-v"), Run("space", 1), Open, Run("noncolon", 1), Close, Lit(":"),
       Open, Run("noncolon", 1), Close, OptGroup(<< Lit(":ro") >>) >>

RECURSIVE ScanVolumes(_, _, _)
ScanVolumesAt(s, acc, m) ==
    IF ~m.ok THEN acc
    ELSE ScanVolumes(s, m.end,
                     Append(acc, [host_path |-> Cap(s, m, 1),
                                  container_path |-> Cap(s, m, 2),
                                  read_only |-> HasCap(m, 3)]))

ScanVolumes(s, pos, acc) == ScanVolumesAt(s, acc, Find(s, pos, VolumePattern))

extract_volumes(content) == ScanVolumes(content, 1, << >>)

\* -p\s+(\d+):(\d+)(/\w+)?
PortPattern ==
    << Lit("-p"), Run("space", 1), Open, Run("digit", 1), Close, Lit(":"),
       Open, Run("digit", 1), Close, OptGroup(<< Lit("/"), Run("word", 1) >>) >>

\* a mapping is pushed when both numbers fit u16
PushPort(acc, host_port, container_port, protocol) ==
    IF host_port >= 0 /\ container_port >= 0
    THEN Append(acc, [host_port |-> host_port, container_port |-> container_port,
                      protocol |-> protocol])
    ELSE acc

RECURSIVE ScanPorts(_, _, _)
ScanPortsAt(s, acc, m) ==
    IF ~m.ok THEN acc
    ELSE ScanPorts(s, m.end,
                   PushPort(acc, ParseU16(Cap(s, m, 1)), ParseU16(Cap(s, m, 2)),
                            IF HasCap(m, 3) THEN TrimStartMatches(Cap(s, m, 3), "/") ELSE "tcp"))

ScanPorts(s, pos, acc) == ScanPortsAt(s, acc, Find(s, pos, PortPattern))

extract_ports(content) == ScanPorts(content, 1, << >>)

\* --net=(\S+)   --network=(\S+)   --net\s+(\S+)   --network\s+(\S+)
NetworkPatterns ==
    << << Lit("--net="), Open, Run("nonspace", 1), Close >>,
       << Lit("--network="), Open, Run("nonspace", 1), Close >>,
       << Lit("--net"), Run("space", 1), Open, Run("nonspace", 1), Close >>,
       << Lit("--network"), Run("space", 1), Open, Run("nonspace", 1), Close >> >>

extract_network(content) == FirstCap(content, NetworkPatterns, 1)

\* --restart=(\S+)   --restart\s+(\S+)
RestartPatterns ==
    << << Lit("--restart="), Open, Run("nonspace", 1), Close >>,
       << Lit("--restart"), Run("space", 1), Open, Run("nonspace", 1), Close >> >>

extract_restart_policy(content) == FirstCap(content, RestartPatterns, 1)

\* (?:docker\s+(?:run|create)[^\n]*?)\s+([a-zA-Z0-9._/-]+(?::[a-zA-Z0-9._-]+)?)\s*(?:\n|$)
ImagePattern ==
    << Lit("docker"), Run("space", 1), Alt(<< Lit("run") >>, << Lit("create") >>),
       Lazy("notnl"), Run("space", 1),
       Open, Run("image", 1), Alt(<< Lit(":"), Run("tag", 1) >>, << >>), Close,
       Run("space", 0), Alt(<< Lit("\n") >>, << AtEnd >>) >>

\* a match that looks like a flag or a variable gives nothing
ImageOf(image) ==
    IF ~StartsWith(image, "-") /\ ~StartsWith(image, "$") THEN SomeString(image)
    ELSE NoString

ImageOr(s, m) == IF m.ok THEN ImageOf(Cap(s, m, 1)) ELSE NoString

extract_docker_image(content) == ImageOr(content, Find(content, 1, ImagePattern))

\* DeploymentScript::new
NewScript(path, client_name) ==
    [path |-> path, client_name |-> client_name, container_name |-> "", repo |-> "",
     env_vars |-> << >>, volumes |-> << >>, network |-> NoString, ports |-> << >>,
     restart_policy |-> NoString, raw_content |-> ""]

\* the value of the shell variable if there is one, else what the flag or
\* the command gives, else the empty field of DeploymentScript::new
Preferred(variable, other) ==
    IF variable.some THEN variable.value ELSE IF other.some THEN other.value ELSE ""

parse_script(content, path, client_name) ==
    [path |-> path,
     client_name |-> client_name,
     container_name |-> Preferred(extract_variable(content, "NAME"),
                                  extract_container_name_flag(content)),
     repo |-> Preferred(extract_variable(content, "REPO"), extract_docker_image(content)),
     env_vars |-> extract_env_vars(content),
     volumes |-> extract_volumes(content),
     network |-> extract_network(content),
     ports |-> extract_ports(content),
     restart_policy |-> extract_restart_policy(content),
     raw_content |-> content]

\* create_script_from_content (discovery.rs): None unless the text has the
\* docker marker and a container name is found
NoScript == [some |-> FALSE]

SomeNamed(script) ==
    IF script.container_name = "" THEN NoScript ELSE [some |-> TRUE, script |-> script]

create_script_from_content(path, content, project_name) ==
    IF ~Contains(content, "docker") THEN NoScript
    ELSE SomeNamed(parse_script(content, path, project_name))

\* ------------------------------------------------------------------------
\* generate_script and the patch functions (script_parser.rs)
\* ------------------------------------------------------------------------

RECURSIVE PortParts(_, _)
PortParts(ports, i) ==
    IF i > Len(ports) THEN << >>
    ELSE << "  -p " \o ToString(ports[i].host_port) \o ":" \o ToString(ports[i].container_port) >>
         \o PortParts(ports, i + 1)

RECURSIVE VolumeParts(_, _)
VolumeParts(vols, i) ==
    IF i > Len(vols) THEN << >>
    ELSE << "  -v " \o vols[i].host_path \o ":" \o vols[i].container_path
              \o (IF vols[i].read_only THEN ":ro" ELSE "") >>
         \o VolumeParts(vols, i + 1)

RECURSIVE EnvParts(_, _)
EnvParts(envs, i) ==
    IF i > Len(envs) THEN << >>
    ELSE << "  -e " \o envs[i].key \o "=\"" \o envs[i].value \o "\"" >>
         \o EnvParts(envs, i + 1)

CreateParts(script) ==
    << "docker create" >>
    \o (IF script.network.some THEN << "  --net=" \o script.network.value >> ELSE << >>)
    \o << "  --name $NAME", "  --restart=unless-stopped" >>
    \o PortParts(script.ports, 1)
    \o VolumeParts(script.volumes, 1)
    \o EnvParts(script.env_vars, 1)
    \o << "  $REPO" >>

generate_script(script) ==
    Join(<< "#!/usr/bin/env bash", "", "# Configuration",
            "NAME='" \o script.container_name \o "'",
            "REPO=\"" \o script.repo \o "\"",
            "",
            "docker pull $REPO", "docker stop $NAME", "docker rm $NAME", "",
            Join(CreateParts(script), " \\\n"),
            "",
            "docker start $NAME" >>, "\n")

\* escape_shell_value: both branches wrap in double quotes; the first also
\* escapes backslashes and double quotes.  (The code's test for a backquote
\* is left out: a TLA+ string cannot hold that character, so no modelled
\* value contains one.)
escape_shell_value(value) ==
    IF \/ Contains(value, " ") \/ Contains(value, "$") \/ Contains(value, "\\")
       \/ Contains(value, "\"") \/ Contains(value, "'") \/ Contains(value, "!")
       \/ value = ""
    THEN "\"" \o Replace(Replace(value, "\\", "\\\\"), "\"", "\\\"") \o "\""
    ELSE "\"" \o value \o "\""

\* (-e\s+KEY=)"([^"]*)"   (-e\s+KEY=)'([^']*)'   (-e\s+KEY=)([^\s\\]+)
\* (-eKEY=)"([^"]*)"      (-eKEY=)'([^']*)'      (-eKEY=)([^\s\\]+)
\* (regex::escape leaves a key of letters, digits and _ as it is)
UpdatePatterns(key) ==
    << << Open, Lit("-e"), Run("space", 1), Lit(key \o "="), Close,
          Lit("\""), Open, Run("notdq", 0), Close, Lit("\"") >>,
       << Open, Lit("-e"), Run("space", 1), Lit(key \o "="), Close,
          Lit("'"), Open, Run("notsq", 0), Close, Lit("'") >>,
       << Open, Lit("-e"), Run("space", 1), Lit(key \o "="), Close,
          Open, Run("nonspacebs", 1), Close >>,
       << Open, Lit("-e" \o key \o "="), Close,
          Lit("\""), Open, Run("notdq", 0), Close, Lit("\"") >>,
       << Open, Lit("-e" \o key \o "="), Close,
          Lit("'"), Open, Run("notsq", 0), Close, Lit("'") >>,
       << Open, Lit("-e" \o key \o "="), Close,
          Open, Run("nonspacebs", 1), Close >> >>

\* the first pattern that matches anywhere decides; only its first match is replaced
RECURSIVE UpdTry(_, _, _, _)
UpdWith(content, pats, new_value, k, m) ==
    IF m.ok
    THEN ReplaceMatch(content, m,
                      "${1}\"" \o Replace(Replace(new_value, "\\", "\\\\"), "$", "\\$") \o "\"")
    ELSE UpdTry(content, pats, new_value, k + 1)

UpdTry(content, pats, new_value, k) ==
    IF k > Len(pats) THEN content
    ELSE UpdWith(content, pats, new_value, k, Find(content, 1, pats[k]))

\* a faulty update_env_var: the text is rebuilt from its lines, as
\* remove_env_var does, and loses its final line feed
update_env_var_by_lines(content, key, new_value) ==
    Join(Lines(UpdTry(content, UpdatePatterns(key), new_value, 1)), "\n")

update_env_var(content, key, new_value) == UpdTry(content, UpdatePatterns(key), new_value, 1)

\* -e\s*KEY=
RemovePattern(key) == << Lit("-e"), Run("space", 0), Lit(key \o "=") >>

\* whether the line after the removed one continues the command
ContinuesCommand(next) ==
    next # "" /\ (StartsWith(next, "-") \/ StartsWith(next, "$") \/ StartsWith(next, "\""))

HasMoreAfter(lines, i) == i < Len(lines) /\ ContinuesCommand(Trim(lines[i + 1]))

\* the kept lines once a line is skipped: the last of them loses its
\* trailing backslash unless the command goes on
SkipLine(result, has_more_after) ==
    IF result # << >> /\ EndsWith(TrimEnd(result[Len(result)]), "\\") /\ ~has_more_after
    THEN [result EXCEPT ![Len(result)] = TrimEnd(TrimEndBackslashes(TrimEnd(@)))]
    ELSE result

\* the loop of remove_env_var: i is the (1-based) line, result the lines kept so far
RECURSIVE RemoveLoop(_, _, _, _)
RemoveLoop(lines, i, key, result) ==
    IF i > Len(lines) THEN result
    ELSE IF IsMatch(Trim(lines[i]), RemovePattern(key))
    THEN RemoveLoop(lines, i + 1, key, SkipLine(result, HasMoreAfter(lines, i)))
    ELSE RemoveLoop(lines, i + 1, key, Append(result, lines[i]))

\* a faulty remove_env_var: every line that mentions the key is dropped
remove_env_var_any_mention(content, key) ==
    Join(SelectSeq(Lines(content), LAMBDA line : ~Contains(line, key)), "\n")

remove_env_var(content, key) == Join(RemoveLoop(Lines(content), 1, key, << >>), "\n")

MaxOf(S) == CHOOSE x \in S : \A y \in S : y <= x

MinOf(S) == CHOOSE x \in S : \A y \in S : x <= y

\* leading whitespace of a line
IndentOf(line) == SubSeq(line, 1, SkipSpace(line, 1) - 1)

\* the tests of the position loop of add_env_var on a trimmed line
IsEnvLine(trimmed) == Contains(trimmed, "-e ") \/ StartsWith(trimmed, "-e")

IsFlagLine(trimmed) ==
    StartsWith(trimmed, "-p") \/ StartsWith(trimmed, "-v") \/ StartsWith(trimmed, "--")

IsCommandEnd(trimmed, previous) ==
    /\ StartsWith(trimmed, "$") \/ Contains(trimmed, "$REPO")
    /\ ~Contains(trimmed, "=")
    /\ EndsWith(TrimEnd(previous), "\\")

\* the last line passing a test, 0 standing for None
LastEnvLine(lines) == MaxOf({0} \cup {i \in 1..Len(lines) : IsEnvLine(Trim(lines[i]))})

LastFlagLine(lines) == MaxOf({0} \cup {i \in 1..Len(lines) : IsFlagLine(Trim(lines[i]))})

CommandEndLine(lines) ==
    MaxOf({0} \cup {i \in 2..Len(lines) : IsCommandEnd(Trim(lines[i]), lines[i - 1])})

\* the first line starting with "docker start", 0 if none
DockerStartLine(lines) ==
    MinOf({i \in 1..Len(lines) : StartsWith(Trim(lines[i]), "docker start")}
          \cup {Len(lines) + 1}) % (Len(lines) + 1)

WithContinuation(line) ==
    IF EndsWith(TrimEnd(line), "\\") THEN line ELSE TrimEnd(line) \o " \\"

NeedsContinuation(lines, i) ==
    i < Len(lines) /\ Trim(lines[i + 1]) # "" /\ ~StartsWith(Trim(lines[i + 1]), "#")

\* the fallback of add_env_var: before the first "docker start" line
AddBeforeStart(lines, key, value, start_idx) ==
    IF start_idx # 0
    THEN Join(SubSeq(lines, 1, start_idx - 1)
              \o << "  -e " \o key \o "=" \o escape_shell_value(value) \o " \\" >>
              \o SubSeq(lines, start_idx, Len(lines)), "\n")
    ELSE Join(lines, "\n")

AddAfter(lines, key, value, insert_after, indent) ==
    IF insert_after # 0
    THEN Join(SubSeq(lines, 1, insert_after - 1)
              \o << WithContinuation(lines[insert_after]),
                    indent \o "-e " \o key \o "=" \o escape_shell_value(value)
                       \o (IF NeedsContinuation(lines, insert_after) THEN " \\" ELSE "") >>
              \o SubSeq(lines, insert_after + 1, Len(lines)), "\n")
    ELSE AddBeforeStart(lines, key, value, DockerStartLine(lines))

AddWith(lines, key, value, last_env_line_idx, last_flag_line_idx, docker_cmd_end_idx) ==
    AddAfter(lines, key, value,
             IF last_env_line_idx # 0 THEN last_env_line_idx
             ELSE IF last_flag_line_idx # 0 THEN last_flag_line_idx
             ELSE IF docker_cmd_end_idx # 0 THEN docker_cmd_end_idx - 1
             ELSE 0,
             IF last_env_line_idx # 0 THEN IndentOf(lines[last_env_line_idx])
             ELSE IF last_flag_line_idx # 0 THEN IndentOf(lines[last_flag_line_idx])
             ELSE "  ")

AddToLines(lines, key, value) ==
    AddWith(lines, key, value, LastEnvLine(lines), LastFlagLine(lines), CommandEndLine(lines))

\* a faulty add_env_var: the flag is appended to the last line holding a -e
\* flag instead of getting a line of its own
add_env_var_same_line(content, key, value) ==
    LET lines == Lines(content)
        idx == LastEnvLine(lines)
        flag == " -e " \o key \o "=" \o escape_shell_value(value)
    IN IF idx = 0 THEN AddToLines(lines, key, value)
       ELSE Join([lines EXCEPT ![idx] =
                     IF EndsWith(TrimEnd(@), "\\")
                     THEN TrimEnd(TrimEndBackslashes(TrimEnd(@))) \o flag \o " \\"
                     ELSE TrimEnd(@) \o flag], "\n")

add_env_var(content, key, value) == AddToLines(Lines(content), key, value)

\* the first loop of apply_script_changes: the keys that are gone are removed
RECURSIVE RemovePass(_, _, _, _)
RemovePass(content, original_env_vars, current, i) ==
    IF i > Len(original_env_vars) THEN content
    ELSE RemovePass(IF ~HasKey(current, original_env_vars[i].key)
                    THEN remove_env_var(content, original_env_vars[i].key)
                    ELSE content,
                    original_env_vars, current, i + 1)

\* the second loop: the keys that stay are updated, the new ones added
RECURSIVE UpdatePass(_, _, _, _)
UpdatePass(content, original_env_vars, current, i) ==
    IF i > Len(current) THEN content
    ELSE UpdatePass(IF HasKey(original_env_vars, current[i].key)
                    THEN update_env_var(content, current[i].key, current[i].value)
                    ELSE add_env_var(content, current[i].key, current[i].value),
                    original_env_vars, current, i + 1)

apply_script_changes(script, original_env_vars) ==
    UpdatePass(RemovePass(script.raw_content, original_env_vars, script.env_vars, 1),
               original_env_vars, script.env_vars, 1)

\* ------------------------------------------------------------------------
\* Output parsers (parser.rs, container.rs, discovery.rs)
\* ------------------------------------------------------------------------

Status(tag, code, text) == [tag |-> tag, code |-> code, text |-> text]

\* .split('(').nth(1).and_then(|s| s.split(')').next()).and_then(|s| s.parse().ok())
ExitCodeOf(parts) ==
    IF Len(parts) >= 2 THEN ParseI32(Split(parts[2], ")")[1]) ELSE [ok |-> FALSE, value |-> 0]

ExitedWith(code) ==
    IF code.ok THEN Status("Exited", code.value, "") ELSE Status("Stopped", 0, "")

StatusOf(status, status_lower) ==
    IF StartsWith(status_lower, "up") THEN Status("Running", 0, "")
    ELSE IF StartsWith(status_lower, "exited")
    THEN ExitedWith(ExitCodeOf(Split(status_lower, "(")))
    ELSE IF Contains(status_lower, "paused") THEN Status("Paused", 0, "")
    ELSE IF Contains(status_lower, "restarting") THEN Status("Restarting", 0, "")
    ELSE IF Contains(status_lower, "dead") THEN Status("Dead", 0, "")
    ELSE Status("Unknown", 0, status)

\* a faulty from_docker_status: the text is not lowered before the rules apply
from_docker_status_case_sensitive(status) == StatusOf(status, status)

\* ContainerStatus::from_docker_status
from_docker_status(status) == StatusOf(status, ToLower(status))

NoPath == ""

\* str::parse::<u16>() of any text: an optional + and digits that fit, else -1
ParseU16Text(s) ==
    LET body == IF StartsWith(s, "+") THEN SubSeq(s, 2, Len(s)) ELSE s IN
    IF AllDigits(body) THEN ParseU16(body) ELSE -1

\* parse_port_protocol: "8080/tcp" or "8080"; port -1 stands for None
parse_port_protocol(s) ==
    LET parts == Split(s, "/") IN
    [port |-> ParseU16Text(parts[1]),
     protocol |-> IF Len(parts) >= 2 THEN parts[2] ELSE "tcp"]

\* parse_single_port: "0.0.0.0:8096->8080/tcp", ":::8096->8080/tcp" or "8080/tcp";
\* the empty sequence stands for None
parse_single_port(port_str) ==
    LET arrow_pos == FindFrom(port_str, "->", 1)
        left == SubSeq(port_str, 1, arrow_pos - 1)
        right == SubSeq(port_str, arrow_pos + 2, Len(port_str))
        pieces == Split(left, ":")
        host_port == ParseU16Text(pieces[Len(pieces)])
        cp == parse_port_protocol(IF arrow_pos # 0 THEN right ELSE port_str)
    IN IF cp.port < 0 \/ (arrow_pos # 0 /\ host_port < 0) THEN << >>
       ELSE << [host_port |-> IF arrow_pos # 0 THEN host_port ELSE cp.port,
                container_port |-> cp.port, protocol |-> cp.protocol] >>

\* the loop of parse_ports: a mapping with the host and container port of an
\* earlier one is dropped
RECURSIVE PortsOf(_, _, _)
PortsOf(entries, i, result) ==
    IF i > Len(entries) THEN result
    ELSE LET m == parse_single_port(entries[i]) IN
         PortsOf(entries, i + 1,
                 IF m # << >> /\ ~\E j \in 1..Len(result) :
                        /\ result[j].host_port = m[1].host_port
                        /\ result[j].container_port = m[1].container_port
                 THEN result \o m ELSE result)

parse_ports(ports_str) == PortsOf(Split(ports_str, ", "), 1, << >>)

ContainerOf(parts, server_name) ==
    IF Len(parts) < 4 THEN << >>
    ELSE << [id |-> parts[1], name |-> parts[2], image |-> parts[3],
             status |-> from_docker_status(parts[4]),
             ports |-> IF Len(parts) > 4 THEN parse_ports(parts[5]) ELSE << >>,
             server_name |-> server_name, script_path |-> NoPath] >>

parse_container_line(line, server_name) == ContainerOf(Split(line, "|"), server_name)

RECURSIVE ParsePsLines(_, _, _)
ParsePsLines(lines, i, server_name) ==
    IF i > Len(lines) THEN << >>
    ELSE (IF lines[i] = "" THEN << >> ELSE parse_container_line(lines[i], server_name))
         \o ParsePsLines(lines, i + 1, server_name)

parse_docker_ps(output, server_name) == ParsePsLines(Lines(output), 1, server_name)

clients_path == "~/clients"

expand_path(path) ==
    IF StartsWith(path, "~/") THEN "$HOME" \o SubSeq(path, 2, Len(path)) ELSE path

\* .filter(|line| !line.trim().is_empty()).map(|s| s.trim())
RECURSIVE NonBlankTrimmed(_, _)
KeepNonBlank(lines, i, trimmed) ==
    (IF trimmed = "" THEN << >> ELSE << trimmed >>) \o NonBlankTrimmed(lines, i + 1)

NonBlankTrimmed(lines, i) ==
    IF i > Len(lines) THEN << >> ELSE KeepNonBlank(lines, i, Trim(lines[i]))

ProjectsOf(names, cpath) ==
    [i \in 1..Len(names) |->
        [name |-> names[i], path |-> expand_path(cpath) \o "/" \o names[i], scripts |-> << >>]]

\* parse_project_listing: one project per non-blank line
parse_project_listing(output, cpath) == ProjectsOf(NonBlankTrimmed(Lines(output), 1), cpath)

\* a faulty parse_script_paths: the blank lines are not filtered out
parse_script_paths_unfiltered(output) == Lines(output)

\* parse_script_paths: one path per non-blank line
parse_script_paths(output) == NonBlankTrimmed(Lines(output), 1)


\* ------------------------------------------------------------------------
\* Directory listings (docker/parser.rs, models/docker/script.rs)
\* ------------------------------------------------------------------------

\* str::split_whitespace from position i on
RECURSIVE SplitWhitespaceFrom(_, _)
SplitWhitespaceFrom(s, i) ==
    IF SkipSpace(s, i) > Len(s) THEN << >>
    ELSE << SubSeq(s, SkipSpace(s, i), RunEnd(s, SkipSpace(s, i), "nonspace") - 1) >>
         \o SplitWhitespaceFrom(s, RunEnd(s, SkipSpace(s, i), "nonspace"))

SplitWhitespace(s) == SplitWhitespaceFrom(s, 1)

\* the printable ASCII characters in byte order (but for the backquote)
AsciiOrder ==
    " !\"#$%&'()*+,-./0123456789:;<=>?@ABCDEFGHIJKLMNOPQRSTUVWXYZ[\\]^_abcdefghijklmnopqrstuvwxyz{|}~"

ByteRank(c) == FindFrom(AsciiOrder, c, 1)

\* a < b as str::cmp orders them, compared from position i on
RECURSIVE StrLessFrom(_, _, _)
StrLessFrom(a, b, i) ==
    IF i > Len(b) THEN FALSE
    ELSE IF i > Len(a) THEN TRUE
    ELSE IF Ch(a, i) # Ch(b, i) THEN ByteRank(Ch(a, i)) < ByteRank(Ch(b, i))
    ELSE StrLessFrom(a, b, i + 1)

StrLess(a, b) == StrLessFrom(a, b, 1)

\* FileEntry::new
FileEntry(name, is_dir) ==
    [name |-> name, is_dir |-> is_dir,
     is_script |-> ~is_dir /\ (EndsWith(name, ".sh") \/ StartsWith(name, "start"))]

\* FileEntry::parent
ParentEntry == [name |-> "..", is_dir |-> TRUE, is_script |-> FALSE]

\* the comparator of the sort: directories first, then by lower-cased name
EntryBefore(a, b) ==
    IF a.is_dir # b.is_dir THEN a.is_dir
    ELSE StrLess(ToLower(a.name), ToLower(b.name))

\* a stable sort by EntryBefore: e goes behind the entries that are not after it
RECURSIVE InsertEntry(_, _)
InsertEntry(sorted, e) ==
    IF sorted = << >> THEN << e >>
    ELSE IF EntryBefore(e, sorted[Len(sorted)])
    THEN Append(InsertEntry(SubSeq(sorted, 1, Len(sorted) - 1), e), sorted[Len(sorted)])
    ELSE Append(sorted, e)

RECURSIVE SortEntries(_, _)
SortEntries(entries, n) ==
    IF n = 0 THEN << >> ELSE InsertEntry(SortEntries(entries, n - 1), entries[n])

\* the entry of one ls -la line: nine fields or more, the name from the ninth
EntryOfLine(parts) ==
    IF Len(parts) < 9 THEN << >>
    ELSE IF Join(SubSeq(parts, 9, Len(parts)), " ") \in {".", ".."} THEN << >>
    ELSE << FileEntry(Join(SubSeq(parts, 9, Len(parts)), " "), StartsWith(parts[1], "d")) >>

RECURSIVE ListedEntries(_, _)
ListedEntries(lines, i) ==
    IF i > Len(lines) THEN << >>
    ELSE EntryOfLine(SplitWhitespace(Trim(lines[i]))) \o ListedEntries(lines, i + 1)

\* parse_directory_listing: the parent entry, then the sorted entries
parse_directory_listing(output, path) ==
    << ParentEntry >>
    \o SortEntries(ListedEntries(Lines(output), 1), Len(ListedEntries(Lines(output), 1)))
\* ------------------------------------------------------------------------
\* The hosts of the SSH config and what their remote shells answer
\* ------------------------------------------------------------------------

\* App::hosts: three configured hosts, one with a non-root user
Hosts ==
    << [host |-> "prod", user |-> "root"], [host |-> "stage", user |-> "deploy"],
       [host |-> "edge", user |-> "root"] >>

ScriptApi ==
    "#!/bin/bash\nNAME='api'\nREPO=\"reg/api:1\"\n# tuned by ops\ndocker pull $REPO\n"
    \o "docker create \\\n  --name $NAME \\\n  -p 8080:80 \\\n  -e A=\"1\" \\\n  -e B='x y' \\\n  $REPO\n"
    \o "docker start $NAME\n"

ScriptNoDocker == "#!/bin/bash\nNAME='tool'\necho hi\n"

ScriptNoName == "#!/bin/bash\ndocker ps\n"

RFile(path, content, deploy, name) ==
    [path |-> path, content |-> content, deploy |-> deploy, name |-> name]

\* the project directories of each host and the script files find reports in
\* them (host 3 has a project with one script and a project with none); deploy says whether the file is a deployment script (it uses docker
\* and names a container), name is that container
RemoteProjects(h) ==
    IF h = 1
    THEN << [name |-> "alpha",
             files |-> << RFile("/root/clients/alpha/start.sh", ScriptApi, TRUE, "api") >>],
            [name |-> "beta",
             files |-> << RFile("/root/clients/beta/run.sh", ScriptNoDocker, FALSE, "") >>] >>
    ELSE IF h = 2
    THEN << [name |-> "gamma",
             files |-> << RFile("/root/clients/gamma/deploy.sh", ScriptNoName, FALSE, ""),
                          RFile("/root/clients/gamma/run.sh", ScriptNoDocker, FALSE, "") >>] >>
    ELSE << [name |-> "shop",
             files |-> << RFile("/root/clients/shop/start.sh", ScriptApi, TRUE, "api") >>],
            [name |-> "spare", files |-> << >>] >>

\* what find prints for a project: host 2's shell leaves a blank line and
\* padding between the paths
FindOutput(h, files) ==
    LET paths == [j \in 1..Len(files) |-> files[j].path] IN
    IF paths = << >> THEN ""
    ELSE IF h # 2 THEN Join(paths, "\n") \o "\n"
    ELSE "  " \o Join(paths, "  \n\n") \o "\n"

\* the containers docker ps reports; host 3 runs none
RemotePs(h) ==
    IF h = 1
    THEN "a1b2|api|reg/api:1|Up 3 hours|0.0.0.0:8080->80/tcp\n"
         \o "c3d4|web|nginx:latest|Exited (0) 2 days ago|\n"
    ELSE IF h = 2 THEN "e5f6|web|nginx:latest|Up 1 minute|80/tcp\n"
    ELSE ""

RemoteFiles(h) ==
    LET ps == RemoteProjects(h) IN
    UNION { { ps[i].files[j] : j \in 1..Len(ps[i].files) } : i \in 1..Len(ps) }

LinesText(ls) == IF ls = << >> THEN "" ELSE Join(ls, "\n") \o "\n"

\* the file the remote shell means by a path: $HOME and ~ are /root there,
\* and no path at all is the working directory, which is the home
RemotePath(path) ==
    IF path = "" THEN "/root"
    ELSE IF StartsWith(path, "$HOME") THEN "/root" \o SubSeq(path, 6, Len(path))
    ELSE IF StartsWith(path, "~") THEN "/root" \o SubSeq(path, 2, Len(path))
    ELSE path

\* the last component of a path
Basename(path) == Split(path, "/")[Len(Split(path, "/"))]

\* one line of ls -la
LsLine(is_dir, name) ==
    (IF is_dir THEN "drwxr-xr-x  2" ELSE "-rwxr-xr-x  1") \o " root root  4096 Jan  1 12:00 " \o name

\* what ls -la prints for a directory of host h, after its total line: the
\* home holds clients, clients holds the projects, a project its files;
\* nothing for a path that is no directory
RemoteListing(h, dir) ==
    LET ps == RemoteProjects(h)
        pr == SelectSeq(ps, LAMBDA q : dir = "/root/clients/" \o q.name)
        dots == << LsLine(TRUE, "."), LsLine(TRUE, "..") >>
    IN  IF dir = "/root"
        THEN LinesText(dots \o << LsLine(FALSE, ".profile"), LsLine(TRUE, "clients") >>)
        ELSE IF dir = "/root/clients"
        THEN LinesText(dots \o [i \in 1..Len(ps) |-> LsLine(TRUE, ps[i].name)])
        ELSE IF pr # << >>
        THEN LinesText(dots \o [j \in 1..Len(pr[1].files) |->
                                   LsLine(FALSE, Basename(pr[1].files[j].path))])
        ELSE ""

\* the standard output of a successful run of a command on host h
RemoteOutput(h, cmd) ==
    LET ps == RemoteProjects(h) IN
    CASE cmd.type = "DockerPs" -> RemotePs(h)
      [] cmd.type = "ListProjects" -> LinesText([i \in 1..Len(ps) |-> ps[i].name])
      [] cmd.type = "FindScripts" ->
            LET pr == SelectSeq(ps, LAMBDA q : q.name = cmd.project_name) IN
            IF pr = << >> THEN ""
            ELSE FindOutput(h, pr[1].files)
      [] cmd.type \in {"ReadScript", "ViewScriptContent", "ReadScriptForContainer"} ->
            LET fs == { f \in RemoteFiles(h) : f.path = RemotePath(cmd.script_path) } IN
            IF fs = {} THEN "" ELSE (CHOOSE f \in fs : TRUE).content
      [] cmd.type \in {"ListDirectory", "RsyncListDirectory"} ->
            RemoteListing(h, RemotePath(cmd.path))
      [] cmd.type = "ViewLogs" -> "started\nlistening on :80\n"
      [] OTHER -> ""

\* ------------------------------------------------------------------------
\* Bounds of the exploration
\* ------------------------------------------------------------------------

\* how many times docker mode is entered from the host table
MaxConnect == 1
\* how many refreshes (key R, or the refresh after an operation) are explored
MaxRefresh == 1
\* how many commands the operator's keys put into the slot
MaxUi == 1
\* how many remote commands fail at the executor
MaxFail == 1
\* the tail count up to which the logs viewer loads more lines
MaxTail == 500

\* ------------------------------------------------------------------------
\* Commands (app.rs, commands.rs, discovery.rs)
\* ------------------------------------------------------------------------

docker_ps_command(all) ==
    "docker ps " \o (IF all THEN "-a " ELSE "")
    \o "--format '{{.ID}}|{{.Names}}|{{.Image}}|{{.Status}}|{{.Ports}}'"

docker_pull_command(image) == "docker pull " \o image
docker_start_command(container) == "docker start " \o container
docker_stop_command(container) == "docker stop " \o container
docker_restart_command(container) == "docker restart " \o container
docker_rm_command(container) == "docker rm " \o container
docker_rm_with_volumes_command(container) == "docker rm -v " \o container
docker_rmi_command(image) == "docker rmi " \o image

docker_logs_command(container, tail) ==
    "docker logs --tail " \o ToString(tail) \o " " \o container \o " 2>&1"

docker_exec_env_command(container) == "docker exec " \o container \o " env"

docker_stats_command(container) ==
    "docker stats --no-stream --format "
    \o "'{{.CPUPerc}}|{{.MemUsage}}|{{.MemPerc}}|{{.NetIO}}|{{.BlockIO}}|{{.PIDs}}' " \o container

docker_top_command(container) == "docker top " \o container \o " -o pid,user,%cpu,%mem,comm"
docker_inspect_command(container) == "docker inspect " \o container
list_directory_command(path) == "ls -la " \o path \o " 2>/dev/null | tail -n +2"

list_projects_command(cpath) ==
    "find " \o expand_path(cpath)
    \o " -maxdepth 1 -mindepth 1 -type d -exec basename {} \\; 2>/dev/null | sort"

find_scripts_command(project_path) ==
    "find " \o project_path
    \o " -type f \\( -name \"start*.sh\" -o -name \"deploy*.sh\" -o -name \"run*.sh\""
    \o " -o -name \"docker*.sh\" \\) \\\n"
    \o "        ! -path \"*/node_modules/*\" \\\n"
    \o "        ! -path \"*/.git/*\" \\\n"
    \o "        ! -path \"*/vendor/*\" \\\n"
    \o "        2>/dev/null"

read_script_command(script_path) == "cat " \o script_path

\* write_script_command: a quoted heredoc, every single quote of the content
\* replaced by '\''
write_script_command(script_path, content) ==
    "cat > '" \o script_path \o "' << 'DOCKERING_SCRIPT_EOF'\n"
    \o Replace(content, "'", "'\\''")
    \o "\nDOCKERING_SCRIPT_EOF && chmod +x '" \o script_path \o "'"

run_script_command(script_path) ==
    "cd $(dirname '" \o script_path \o "') && bash '" \o script_path \o "'"

\* PendingSshCommand with its SshCommandType; the fields a variant does not
\* carry stay empty.  id and cycle are history: id numbers the commands in
\* creation order, cycle is the discovery pass the command belongs to.
PendingSshCommand(host, command, type) ==
    [id |-> 0, cycle |-> 0, host |-> host, command |-> command, type |-> type,
     project_name |-> "", project_path |-> "", script_path |-> "",
     container_index |-> 0, operation |-> "", path |-> ""]

\* the commands the discovery pipeline queues
QueueTypes == {"ListProjects", "FindScripts", "ReadScript"}

\* ------------------------------------------------------------------------
\* AppMode (models/app_state.rs): the docker modes
\* ------------------------------------------------------------------------

Table == [name |-> "Table"]
ContainerList(host_index) == [name |-> "ContainerList", host_index |-> host_index]
ConfirmDockerAction(action, return_mode) ==
    [name |-> "ConfirmDockerAction", action |-> action, return_mode |-> return_mode]
LogsViewer(host_index, container_index, log_buffer, tail_count) ==
    [name |-> "LogsViewer", host_index |-> host_index, container_index |-> container_index,
     log_buffer |-> log_buffer, tail_count |-> tail_count]
\* StatsViewer, ProcessViewer, InspectViewer, EnvInspector: the parsed payload
\* is display data and is left out
Viewer(name, host_index, container_index) ==
    [name |-> name, host_index |-> host_index, container_index |-> container_index]
ScriptViewer(host_index, container_index, script_path, script_content) ==
    [name |-> "ScriptViewer", host_index |-> host_index, container_index |-> container_index,
     script_path |-> script_path, script_content |-> script_content]
ScriptEdit(host_index, container_index, editing_script, selected_index) ==
    [name |-> "ScriptEdit", host_index |-> host_index, container_index |-> container_index,
     editing_script |-> editing_script, selected_index |-> selected_index]
EnvVarEditor(host_index, container_index, editing_script, var_index, key_buffer, value_buffer) ==
    [name |-> "EnvVarEditor", host_index |-> host_index, container_index |-> container_index,
     editing_script |-> editing_script, var_index |-> var_index,
     key_buffer |-> key_buffer, value_buffer |-> value_buffer]
FileBrowser(host_index, container_index, current_path, loading) ==
    [name |-> "FileBrowser", host_index |-> host_index, container_index |-> container_index,
     current_path |-> current_path, entries |-> << >>, selected_index |-> 0,
     loading |-> loading]
\* the host being synced with is named by its index; RsyncField is
\* "SourcePath" or "DestPath"
Rsync(host_index, source_path, dest_path, sync_to_host, focused_field, compress) ==
    [name |-> "Rsync", host_index |-> host_index, source_path |-> source_path,
     dest_path |-> dest_path, sync_to_host |-> sync_to_host,
     focused_field |-> focused_field, editing_mode |-> FALSE, compress |-> compress]
RsyncFileBrowser(host_index, current_path, entries, loading, is_remote, rsync) ==
    [name |-> "RsyncFileBrowser", host_index |-> host_index, current_path |-> current_path,
     entries |-> entries, selected_index |-> 0, loading |-> loading,
     is_remote |-> is_remote, target_field |-> rsync.focused_field,
     source_path |-> rsync.source_path, dest_path |-> rsync.dest_path,
     sync_to_host |-> rsync.sync_to_host, compress |-> rsync.compress]

\* DockerPendingAction
DockerPendingAction(kind, host_index, container_name, image_name, script_path) ==
    [kind |-> kind, host_index |-> host_index, container_name |-> container_name,
     image_name |-> image_name, script_path |-> script_path]

\* ------------------------------------------------------------------------
\* App (app.rs): the docker part of the application state
\* ------------------------------------------------------------------------

\* Indices into hosts are 1-based here and 0 stands for None; indices into
\* containers are 0-based as in the source.  nextId, cycle, clean and prev
\* are history: clean says that the current discovery pass started with the
\* slot and the queue empty, prev is the inventory a refresh replaced when
\* the pass before it had run to completion.
NewApp ==
    [mode |-> Table, selected_index |-> 0,
     containers |-> << >>, projects |-> << >>, scripts |-> << >>,
     docker_selected_index |-> 0,
     pending_ssh_command |-> None, pending_docker_commands |-> << >>,
     current_docker_host_index |-> 0, use_sudo |-> FALSE,
     status_message |-> NoString, error_message |-> NoString,
     metadata |-> {}, nextId |-> 1, cycle |-> 0, clean |-> TRUE, prev |-> None]

set_status(a, message) == [a EXCEPT !.status_message = SomeString(message)]
set_error(a, message) == [a EXCEPT !.error_message = SomeString(message)]
clear_messages(a) == [a EXCEPT !.status_message = NoString, !.error_message = NoString]

sudo_cmd(a, cmd) == IF a.use_sudo THEN "sudo -i " \o cmd ELSE cmd
docker_cmd(a, cmd) == sudo_cmd(a, cmd)

\* self.pending_ssh_command = Some(c)
SetPending(a, c) == [a EXCEPT !.pending_ssh_command = [c EXCEPT !.cycle = a.cycle]]

\* a faulty push: the command is inserted at the front of the queue
PushPendingFront(a, c, cycle) ==
    [a EXCEPT !.pending_docker_commands = << [c EXCEPT !.id = a.nextId, !.cycle = cycle] >> \o @,
              !.nextId = @ + 1]

\* self.pending_docker_commands.push(c)
PushPending(a, c, cycle) ==
    [a EXCEPT !.pending_docker_commands = Append(@, [c EXCEPT !.id = a.nextId, !.cycle = cycle]),
              !.nextId = @ + 1]

\* the script-association index of the host metadata: a set of
\* (host, container, path) entries with at most one path per (host, container)
get_script_path(metadata, host_name, container_name) ==
    LET es == { e \in metadata : e.host = host_name /\ e.container = container_name } IN
    IF es = {} THEN NoString ELSE SomeString((CHOOSE e \in es : TRUE).path)

set_script_path(metadata, host_name, container_name, path) ==
    { e \in metadata : ~(e.host = host_name /\ e.container = container_name) }
    \cup { [host |-> host_name, container |-> container_name, path |-> path] }

get_current_docker_host(a) ==
    IF a.current_docker_host_index \in 1..Len(Hosts)
    THEN SomeString(Hosts[a.current_docker_host_index].host) ELSE NoString

\* a faulty association: a script found by name is preferred to the saved one
associate_containers_with_scripts_name_first(a) ==
    LET h == get_current_docker_host(a)
        host_name == IF h.some THEN h.value ELSE ""
        Assoc(c) ==
            LET saved == get_script_path(a.metadata, host_name, c.name)
                named == SelectSeq(a.scripts, LAMBDA sc : sc.container_name = c.name)
            IN [c EXCEPT !.script_path =
                    IF named # << >> THEN named[1].path
                    ELSE IF saved.some THEN saved.value ELSE NoPath]
    IN [a EXCEPT !.containers = [i \in 1..Len(a.containers) |-> Assoc(a.containers[i])]]

associate_containers_with_scripts(a) ==
    LET h == get_current_docker_host(a)
        host_name == IF h.some THEN h.value ELSE ""
        Assoc(c) ==
            LET saved == get_script_path(a.metadata, host_name, c.name)
                named == SelectSeq(a.scripts, LAMBDA sc : sc.container_name = c.name)
            IN [c EXCEPT !.script_path =
                    IF saved.some THEN saved.value
                    ELSE IF named # << >> THEN named[1].path ELSE NoPath]
    IN [a EXCEPT !.containers = [i \in 1..Len(a.containers) |-> Assoc(a.containers[i])]]

\* a faulty promotion: the newest command of the queue is taken
process_next_docker_command_last(a) ==
    IF a.pending_ssh_command = None /\ a.pending_docker_commands # << >>
    THEN [a EXCEPT !.pending_ssh_command =
                       a.pending_docker_commands[Len(a.pending_docker_commands)],
                   !.pending_docker_commands =
                       SubSeq(@, 1, Len(a.pending_docker_commands) - 1)]
    ELSE a

process_next_docker_command(a) ==
    IF a.pending_ssh_command = None /\ a.pending_docker_commands # << >>
    THEN [a EXCEPT !.pending_ssh_command = Head(a.pending_docker_commands),
                   !.pending_docker_commands = Tail(a.pending_docker_commands)]
    ELSE a

\* a faulty refetch: the flat script list is not cleared
RefetchKeepingScripts(a, host_index) ==
    LET a1 == [a EXCEPT !.containers = << >>, !.projects = << >>,
                        !.cycle = @ + 1,
                        !.clean = a.pending_ssh_command = None
                                  /\ a.pending_docker_commands = << >>]
        a2 == SetPending(a1, PendingSshCommand(host_index,
                  docker_cmd(a1, docker_ps_command(TRUE)), "DockerPs"))
    IN PushPending(a2, PendingSshCommand(host_index,
           sudo_cmd(a2, list_projects_command(clients_path)), "ListProjects"), a2.cycle)

\* the part start_fetching_containers and refresh_containers share: clear the
\* inventory, put docker ps into the slot, queue the project listing
Refetch(a, host_index) ==
    LET a1 == [a EXCEPT !.containers = << >>, !.projects = << >>, !.scripts = << >>,
                        !.cycle = @ + 1,
                        !.clean = a.pending_ssh_command = None
                                  /\ a.pending_docker_commands = << >>]
        a2 == SetPending(a1, PendingSshCommand(host_index,
                  docker_cmd(a1, docker_ps_command(TRUE)), "DockerPs"))
    IN PushPending(a2, PendingSshCommand(host_index,
           sudo_cmd(a2, list_projects_command(clients_path)), "ListProjects"), a2.cycle)

start_fetching_containers(a, host_index) ==
    IF host_index \in 1..Len(Hosts)
    THEN LET a1 == Refetch([a EXCEPT !.current_docker_host_index = host_index,
                                     !.prev = None], host_index)
             a2 == [a1 EXCEPT !.mode = ContainerList(host_index), !.docker_selected_index = 0]
         IN set_status(a2, IF a2.use_sudo THEN "Connecting (sudo)..." ELSE "Connecting...")
    ELSE a

\* history: the inventory of a pass that started clean and has drained
Completed(a) ==
    IF a.clean /\ a.pending_ssh_command = None /\ a.pending_docker_commands = << >>
    THEN [containers |-> a.containers, projects |-> a.projects, scripts |-> a.scripts]
    ELSE None

\* a faulty refresh: the association index is emptied with the inventory
refresh_containers_forgetting(a) ==
    IF a.current_docker_host_index \in 1..Len(Hosts)
    THEN LET a1 == Refetch([a EXCEPT !.prev = Completed(a), !.metadata = {}],
                           a.current_docker_host_index)
         IN set_status(a1, IF a1.use_sudo THEN "Refreshing (sudo)..." ELSE "Refreshing...")
    ELSE a

refresh_containers(a) ==
    IF a.current_docker_host_index \in 1..Len(Hosts)
    THEN LET a1 == Refetch([a EXCEPT !.prev = Completed(a)], a.current_docker_host_index)
         IN set_status(a1, IF a1.use_sudo THEN "Refreshing (sudo)..." ELSE "Refreshing...")
    ELSE a

start_docker_mode(a) ==
    IF a.selected_index + 1 \in 1..Len(Hosts)
    THEN LET actual_index == a.selected_index + 1
             a1 == [a EXCEPT !.use_sudo = FALSE]
         IN IF Hosts[actual_index].user # "root"
            THEN [a1 EXCEPT !.mode = ConfirmDockerAction(
                      DockerPendingAction("EnableSudo", actual_index, "", "", ""), Table)]
            ELSE start_fetching_containers(a1, actual_index)
    ELSE a

\* ------------------------------------------------------------------------
\* handle_ssh_output (app.rs): one branch per command type
\* ------------------------------------------------------------------------

RECURSIVE PushAll(_, _, _, _)
\* push the commands cs[i..] to the queue, in order
PushAll(a, cs, i, cycle) ==
    IF i > Len(cs) THEN a ELSE PushAll(PushPending(a, cs[i], cycle), cs, i + 1, cycle)

RECURSIVE SumLen(_, _)
SumLen(projects, i) ==
    IF i > Len(projects) THEN 0 ELSE Len(projects[i].scripts) + SumLen(projects, i + 1)

OnDockerPs(a, output) ==
    LET h == get_current_docker_host(a)
        server_name == IF h.some THEN h.value ELSE "unknown"
        a1 == associate_containers_with_scripts(
                  [a EXCEPT !.containers = parse_docker_ps(output, server_name)])
    IN set_status(a1, "Found " \o ToString(Len(a1.containers)) \o " containers")

\* a faulty ListProjects arm: only the first project is scanned for scripts
OnListProjectsFirstOnly(a, output, cmd) ==
    IF a.current_docker_host_index \in 1..Len(Hosts)
    THEN LET host == a.current_docker_host_index
             a1 == [a EXCEPT !.projects = parse_project_listing(output, clients_path)]
             cs == [i \in 1..(IF a1.projects = << >> THEN 0 ELSE 1) |->
                      [PendingSshCommand(host,
                           sudo_cmd(a1, find_scripts_command(a1.projects[i].path)), "FindScripts")
                       EXCEPT !.project_name = a1.projects[i].name,
                              !.project_path = a1.projects[i].path]]
             a2 == PushAll(a1, cs, 1, cmd.cycle)
         IN set_status(a2, "Found " \o ToString(Len(a2.projects))
                           \o " projects, scanning for scripts...")
    ELSE a

OnListProjects(a, output, cmd) ==
    IF a.current_docker_host_index \in 1..Len(Hosts)
    THEN LET host == a.current_docker_host_index
             a1 == [a EXCEPT !.projects = parse_project_listing(output, clients_path)]
             cs == [i \in 1..Len(a1.projects) |->
                      [PendingSshCommand(host,
                           sudo_cmd(a1, find_scripts_command(a1.projects[i].path)), "FindScripts")
                       EXCEPT !.project_name = a1.projects[i].name,
                              !.project_path = a1.projects[i].path]]
             a2 == PushAll(a1, cs, 1, cmd.cycle)
         IN set_status(a2, "Found " \o ToString(Len(a2.projects))
                           \o " projects, scanning for scripts...")
    ELSE a

OnFindScripts(a, output, cmd) ==
    LET script_paths == parse_script_paths(output) IN
    IF a.current_docker_host_index \in 1..Len(Hosts)
    THEN LET host == a.current_docker_host_index
             cs == [i \in 1..Len(script_paths) |->
                      [PendingSshCommand(host,
                           sudo_cmd(a, read_script_command(script_paths[i])), "ReadScript")
                       EXCEPT !.project_name = cmd.project_name,
                              !.script_path = script_paths[i]]]
         IN PushAll(a, cs, 1, cmd.cycle)
    ELSE a

OnReadScript(a, output, cmd) ==
    LET r == create_script_from_content(cmd.script_path, output, cmd.project_name)
        a1 == IF r.some
              THEN associate_containers_with_scripts(
                     [a EXCEPT !.projects =
                                   [i \in 1..Len(a.projects) |->
                                      IF a.projects[i].name = cmd.project_name
                                         /\ \A j \in 1..(i - 1) : a.projects[j].name # cmd.project_name
                                      THEN [a.projects[i] EXCEPT !.scripts = Append(@, r.script)]
                                      ELSE a.projects[i]],
                               !.scripts = Append(@, r.script)])
              ELSE a
    IN IF a1.pending_docker_commands = << >>
       THEN set_status(a1, ToString(Len(a1.containers)) \o " containers, "
                           \o ToString(Len(a1.projects)) \o " projects, "
                           \o ToString(SumLen(a1.projects, 1)) \o " scripts")
       ELSE a1

OnViewLogs(a, output) ==
    IF a.mode.name = "LogsViewer"
    THEN [a EXCEPT !.mode.log_buffer = @ \o Lines(output)]
    ELSE a

OnViewer(a, name, cmd) ==
    IF a.current_docker_host_index # 0
    THEN [a EXCEPT !.mode = Viewer(name, a.current_docker_host_index, cmd.container_index)]
    ELSE a

OnInspectContainerEnv(a, output, cmd) ==
    LET var_count == Len(SelectSeq(Lines(output), LAMBDA l : Contains(Trim(l), "="))) IN
    IF a.current_docker_host_index # 0
    THEN set_status(OnViewer(a, "EnvInspector", cmd),
                    "Found " \o ToString(var_count) \o " environment variables. Type to search.")
    ELSE a

OnViewScriptContent(a, output, cmd) ==
    IF a.current_docker_host_index # 0
    THEN [a EXCEPT !.mode = ScriptViewer(a.current_docker_host_index, cmd.container_index,
                                         cmd.script_path, Lines(output))]
    ELSE a

OnListDirectory(a, output, cmd) ==
    IF a.mode.name = "FileBrowser"
    THEN [a EXCEPT !.mode.entries = parse_directory_listing(output, cmd.path),
                   !.mode.loading = FALSE, !.mode.current_path = cmd.path]
    ELSE a

OnRsyncListDirectory(a, output, cmd) ==
    IF a.mode.name = "RsyncFileBrowser"
    THEN [a EXCEPT !.mode.entries = parse_directory_listing(output, cmd.path),
                   !.mode.loading = FALSE, !.mode.current_path = cmd.path]
    ELSE a

OnReadScriptForContainer(a, output, cmd) ==
    LET r == create_script_from_content(cmd.script_path, output, "manual") IN
    IF r.some
    THEN LET h == get_current_docker_host(a)
             inRange == cmd.container_index < Len(a.containers)
             a1 == IF inRange
                   THEN [a EXCEPT !.containers[cmd.container_index + 1].script_path = cmd.script_path,
                                  !.metadata =
                                      IF h.some
                                      THEN set_script_path(@, h.value,
                                               a.containers[cmd.container_index + 1].name,
                                               cmd.script_path)
                                      ELSE @]
                   ELSE a
             a2 == IF \E i \in 1..Len(a1.scripts) : a1.scripts[i].path = cmd.script_path
                   THEN a1 ELSE [a1 EXCEPT !.scripts = Append(@, r.script)]
         IN IF a2.current_docker_host_index # 0
            THEN set_status([a2 EXCEPT !.mode = ScriptEdit(a2.current_docker_host_index,
                                                   cmd.container_index, r.script, 0)],
                     "Script loaded and saved. Make changes and press Ctrl+S to save.")
            ELSE a2
    ELSE LET a1 == set_error(a, "Failed to parse script file") IN
         IF a1.current_docker_host_index # 0
         THEN [a1 EXCEPT !.mode = ContainerList(a1.current_docker_host_index)]
         ELSE a1

\* the match of handle_ssh_output
HandleBranch(a, output, cmd) ==
    LET t == cmd.type IN
          CASE t = "DockerPs" -> OnDockerPs(a, output)
               [] t = "ListProjects" -> OnListProjects(a, output, cmd)
               [] t = "FindScripts" -> OnFindScripts(a, output, cmd)
               [] t = "ReadScript" -> OnReadScript(a, output, cmd)
               [] t = "ViewLogs" -> OnViewLogs(a, output)
               [] t = "DockerOperation" ->
                      refresh_containers(set_status(a, cmd.operation \o " completed"))
               [] t = "ContainerStats" -> OnViewer(a, "StatsViewer", cmd)
               [] t = "ContainerTop" -> OnViewer(a, "ProcessViewer", cmd)
               [] t = "ContainerInspect" -> OnViewer(a, "InspectViewer", cmd)
               [] t = "InspectContainerEnv" -> OnInspectContainerEnv(a, output, cmd)
               [] t = "ViewScriptContent" -> OnViewScriptContent(a, output, cmd)
               [] t = "ListDirectory" -> OnListDirectory(a, output, cmd)
               [] t = "RsyncListDirectory" -> OnRsyncListDirectory(a, output, cmd)
               [] t = "ReadScriptForContainer" -> OnReadScriptForContainer(a, output, cmd)
               [] t = "WriteScript" -> set_status(a, "Script saved: " \o cmd.script_path)
               [] t = "RunScript" -> refresh_containers(set_status(a, "Script executed"))

handle_ssh_output(a, output, cmd) ==
    process_next_docker_command(HandleBranch(a, output, cmd))

\* ------------------------------------------------------------------------
\* The operator's operations (app.rs)
\* ------------------------------------------------------------------------

select_next(a) ==
    IF Len(Hosts) > 0 /\ a.selected_index < Len(Hosts) - 1
    THEN [a EXCEPT !.selected_index = @ + 1] ELSE a

select_previous(a) ==
    IF a.selected_index > 0 THEN [a EXCEPT !.selected_index = @ - 1] ELSE a

docker_select_next(a) ==
    IF a.containers # << >> /\ a.docker_selected_index < Len(a.containers) - 1
    THEN [a EXCEPT !.docker_selected_index = @ + 1] ELSE a

docker_select_previous(a) ==
    IF a.docker_selected_index > 0 THEN [a EXCEPT !.docker_selected_index = @ - 1] ELSE a

\* the guard the container-list operations share: the mode is ContainerList
\* and the selection is inside the list
OnContainer(a) ==
    a.mode.name = "ContainerList" /\ a.docker_selected_index < Len(a.containers)

Selected(a) == a.containers[a.docker_selected_index + 1]

\* docker_pull, docker_restart, docker_stop, docker_start, docker_remove:
\* open the confirmation dialog for the selected container
docker_confirm(a, kind) ==
    IF OnContainer(a)
    THEN [a EXCEPT !.mode = ConfirmDockerAction(
              DockerPendingAction(kind, a.mode.host_index, Selected(a).name,
                                  Selected(a).image, ""), a.mode)]
    ELSE a

view_logs(a) ==
    IF OnContainer(a)
    THEN LET a1 == SetPending(a, PendingSshCommand(a.mode.host_index,
                       docker_cmd(a, docker_logs_command(Selected(a).name, 100)), "ViewLogs"))
         IN [a1 EXCEPT !.mode = LogsViewer(a.mode.host_index, a.docker_selected_index, << >>, 100)]
    ELSE a

load_more_logs(a) ==
    IF a.mode.name = "LogsViewer" /\ a.mode.container_index < Len(a.containers)
    THEN LET t == a.mode.tail_count
             new_tail_count == IF t < 500 THEN 500 ELSE IF t < 2000 THEN 2000
                               ELSE IF t < 10000 THEN 10000 ELSE 50000
             a1 == SetPending(a, PendingSshCommand(a.mode.host_index,
                       docker_cmd(a, docker_logs_command(
                           a.containers[a.mode.container_index + 1].name, new_tail_count)),
                       "ViewLogs"))
         IN set_status([a1 EXCEPT !.mode = LogsViewer(a.mode.host_index, a.mode.container_index,
                                                      << >>, new_tail_count)],
                       "Loading last " \o ToString(new_tail_count) \o " lines...")
    ELSE a

\* view_stats, view_processes, view_inspect, inspect_env
view_container(a, type) ==
    IF OnContainer(a)
    THEN LET n == Selected(a).name
             c == CASE type = "ContainerStats" -> docker_stats_command(n)
                    [] type = "ContainerTop" -> docker_top_command(n)
                    [] type = "ContainerInspect" -> docker_inspect_command(n)
                    [] type = "InspectContainerEnv" -> docker_exec_env_command(n)
         IN SetPending(a, [PendingSshCommand(a.mode.host_index, docker_cmd(a, c), type)
                           EXCEPT !.container_index = a.docker_selected_index])
    ELSE a

view_script(a) ==
    IF OnContainer(a) /\ Selected(a).script_path # NoPath
    THEN SetPending(a, [PendingSshCommand(a.mode.host_index,
                            sudo_cmd(a, read_script_command(Selected(a).script_path)),
                            "ViewScriptContent")
                        EXCEPT !.script_path = Selected(a).script_path,
                               !.container_index = a.docker_selected_index])
    ELSE a

edit_script(a) ==
    IF OnContainer(a) /\ Selected(a).script_path # NoPath
    THEN LET found == SelectSeq(a.scripts, LAMBDA sc : sc.path = Selected(a).script_path) IN
         IF found # << >>
         THEN [a EXCEPT !.mode = ScriptEdit(a.mode.host_index, a.docker_selected_index,
                                            found[1], 0)]
         ELSE a
    ELSE a

\* capitalize_first: the first character in upper case (ASCII letters)
capitalize_first(s) ==
    IF s = "" THEN ""
    ELSE (IF FindFrom(LowerSeq, Ch(s, 1), 1) # 0
          THEN Ch(UpperSeq, FindFrom(LowerSeq, Ch(s, 1), 1)) ELSE Ch(s, 1))
         \o SubSeq(s, 2, Len(s))

\* key n: a new script for a container without one, made from the container's
\* name, image and ports; nothing is sent until it is saved
create_script(a) ==
    IF OnContainer(a)
    THEN LET container == Selected(a)
             script_name == "start" \o capitalize_first(container.name) \o ".sh"
             script_path == clients_path \o "/" \o container.name \o "/" \o script_name
             new_script == [NewScript(script_path, container.name)
                            EXCEPT !.container_name = container.name,
                                   !.repo = container.image,
                                   !.ports = container.ports]
         IN IF container.script_path # NoPath
            THEN set_error(a, "Container already has a script. Press [e] to edit.")
            ELSE set_status([a EXCEPT !.mode = ScriptEdit(a.mode.host_index,
                                                          a.docker_selected_index,
                                                          new_script, 0)],
                            "Creating new script. Press Ctrl+S to save.")
    ELSE a

run_script(a) ==
    IF OnContainer(a) /\ Selected(a).script_path # NoPath
    THEN [a EXCEPT !.mode = ConfirmDockerAction(
              DockerPendingAction("RunScript", a.mode.host_index, "", "",
                                  Selected(a).script_path), a.mode)]
    ELSE a

browse_for_script(a) ==
    IF OnContainer(a)
    THEN LET start_path ==
                 IF a.use_sudo /\ (clients_path = "~" \/ StartsWith(clients_path, "~/"))
                 THEN "/root" \o SubSeq(clients_path, 2, Len(clients_path))
                 ELSE expand_path(clients_path)
             a1 == SetPending(a, [PendingSshCommand(a.mode.host_index,
                                      sudo_cmd(a, list_directory_command(start_path)),
                                      "ListDirectory")
                                  EXCEPT !.path = start_path])
         IN [a1 EXCEPT !.mode = FileBrowser(a.mode.host_index, a.docker_selected_index,
                                            start_path, TRUE)]
    ELSE a

execute_docker_action(a, action) ==
    LET k == action.kind
        n == action.container_name
        Op(cmd, operation, status) ==
            set_status([SetPending(a, [PendingSshCommand(action.host_index, cmd,
                                           "DockerOperation")
                                       EXCEPT !.operation = operation])
                        EXCEPT !.mode = ContainerList(action.host_index)], status)
    IN CASE k = "EnableSudo" ->
              start_fetching_containers([a EXCEPT !.use_sudo = TRUE], action.host_index)
         [] k = "DockerPull" ->
              Op(docker_cmd(a, docker_pull_command(action.image_name)), "Pull " \o n,
                 "Pulling " \o action.image_name \o "...")
         [] k = "DockerRestart" ->
              Op(docker_cmd(a, docker_restart_command(n)), "Restart " \o n,
                 "Restarting " \o n \o "...")
         [] k = "DockerStop" ->
              Op(docker_cmd(a, docker_stop_command(n)), "Stop " \o n, "Stopping " \o n \o "...")
         [] k = "DockerStart" ->
              Op(docker_cmd(a, docker_start_command(n)), "Start " \o n, "Starting " \o n \o "...")
         [] k = "DockerRemove" ->
              Op(docker_cmd(a, docker_rm_command(n)), "Remove " \o n, "Removing " \o n \o "...")
         [] k = "DockerRemoveAll" ->
              Op(docker_cmd(a, docker_rm_with_volumes_command(n)) \o " && "
                 \o docker_cmd(a, docker_rmi_command(action.image_name)),
                 "Remove " \o n, "Removing " \o n \o "...")
         [] k = "RunScript" ->
              set_status([SetPending(a, PendingSshCommand(action.host_index,
                              sudo_cmd(a, run_script_command(action.script_path)), "RunScript"))
                          EXCEPT !.mode = ContainerList(action.host_index)],
                         "Running script " \o action.script_path \o "...")

cancel_docker_action(a, return_mode) ==
    IF a.mode.name = "ConfirmDockerAction" /\ a.mode.action.kind = "EnableSudo"
    THEN start_fetching_containers([a EXCEPT !.use_sudo = FALSE], a.mode.action.host_index)
    ELSE [a EXCEPT !.mode = return_mode]

\* a faulty docker_go_back: the slot and the queue are left as they are
docker_go_back_keeping_commands(a) ==
    [a EXCEPT !.containers = << >>, !.projects = << >>, !.scripts = << >>,
              !.current_docker_host_index = 0, !.docker_selected_index = 0,
              !.use_sudo = FALSE, !.mode = Table,
              !.clean = TRUE, !.prev = None]

docker_go_back(a) ==
    [a EXCEPT !.containers = << >>, !.projects = << >>, !.scripts = << >>,
              !.current_docker_host_index = 0, !.docker_selected_index = 0,
              !.use_sudo = FALSE, !.pending_ssh_command = None,
              !.pending_docker_commands = << >>, !.mode = Table,
              !.clean = TRUE, !.prev = None]

save_current_script(a) ==
    IF a.mode.name = "ScriptEdit" /\ a.mode.host_index \in 1..Len(Hosts)
    THEN LET es == a.mode.editing_script
             new_content == generate_script(es)
             a1 == SetPending(a, [PendingSshCommand(a.mode.host_index,
                                      sudo_cmd(a, write_script_command(es.path, new_content)),
                                      "WriteScript")
                                  EXCEPT !.script_path = es.path])
             known == { i \in 1..Len(a.scripts) : a.scripts[i].path = es.path }
             ci == a.mode.container_index
             a2 == IF known # {}
                   THEN LET i == CHOOSE i \in known : \A j \in known : i <= j IN
                        [a1 EXCEPT !.scripts[i] = [es EXCEPT !.raw_content = new_content]]
                   ELSE LET a3 == [a1 EXCEPT !.scripts = Append(@, es)] IN
                        IF ci < Len(a3.containers)
                        THEN [a3 EXCEPT !.containers[ci + 1].script_path = es.path,
                                        !.metadata = set_script_path(@, Hosts[a.mode.host_index].host,
                                                         a3.containers[ci + 1].name, es.path)]
                        ELSE a3
         IN set_status([a2 EXCEPT !.mode = ContainerList(a.mode.host_index)], "Saving script...")
    ELSE a

\* the environment-variable editor of the script editor
MaxEdits == 1
EditKeys == {"A", "N"}
EditValues == {"2", "p q"}

start_add_env_var(a) ==
    IF a.mode.name = "ScriptEdit"
    THEN [a EXCEPT !.mode = EnvVarEditor(a.mode.host_index, a.mode.container_index,
                                         a.mode.editing_script, -1, "", "")]
    ELSE a

start_edit_env_var(a) ==
    IF a.mode.name = "ScriptEdit" /\ a.mode.selected_index < Len(a.mode.editing_script.env_vars)
    THEN LET env == a.mode.editing_script.env_vars[a.mode.selected_index + 1] IN
         [a EXCEPT !.mode = EnvVarEditor(a.mode.host_index, a.mode.container_index,
                                         a.mode.editing_script, a.mode.selected_index,
                                         env.key, env.value)]
    ELSE a

save_env_var(a) ==
    IF a.mode.name = "EnvVarEditor"
    THEN LET m == a.mode
             es == m.editing_script
         IN IF m.key_buffer = "" THEN set_error(a, "Key cannot be empty")
            ELSE LET es1 == IF m.var_index >= 0
                            THEN IF m.var_index < Len(es.env_vars)
                                 THEN [es EXCEPT !.env_vars[m.var_index + 1] =
                                                     EnvVar(m.key_buffer, m.value_buffer)]
                                 ELSE es
                            ELSE [es EXCEPT !.env_vars =
                                                Append(@, EnvVar(m.key_buffer, m.value_buffer))]
                 IN [a EXCEPT !.mode = ScriptEdit(m.host_index, m.container_index, es1, 0)]
    ELSE a

cancel_env_var_edit(a) ==
    IF a.mode.name = "EnvVarEditor"
    THEN [a EXCEPT !.mode = ScriptEdit(a.mode.host_index, a.mode.container_index,
                                       a.mode.editing_script, 0)]
    ELSE a

remove_env_var_from_current_script(a, index) ==
    IF a.mode.name = "ScriptEdit" /\ index < Len(a.mode.editing_script.env_vars)
    THEN LET vs == a.mode.editing_script.env_vars
             vs1 == SubSeq(vs, 1, index) \o SubSeq(vs, index + 2, Len(vs))
             last == IF Len(vs1) = 0 THEN 0 ELSE Len(vs1) - 1
         IN [a EXCEPT !.mode.editing_script.env_vars = vs1,
                      !.mode.selected_index = IF @ < last THEN @ ELSE last]
    ELSE a

\* ------------------------------------------------------------------------
\* The state machine: the host loop alternates between one key of the
\* operator and one dispatch of the command in the slot
\* ------------------------------------------------------------------------

VARIABLES
    app,            \* the App record
    lastDispatched, \* history: the command the last dispatch took, its outcome, and a
                    \* bit that flips at every dispatch
    connects,       \* history: how often docker mode was entered
    refreshes,      \* history: how often R was pressed
    uiCmds,         \* history: how many commands the operator's keys issued
    fails,          \* history: how many commands failed at the executor
    edits,          \* history: how many edits the script editor made
    patch,          \* the arguments and results of the script functions (SpecPatch, SpecEnv)
    polled          \* a key was read since the last dispatch

vars == << app, lastDispatched, connects, refreshes, uiCmds, fails, edits, patch, polled >>

Init ==
    /\ app = NewApp
    /\ lastDispatched = [cmd |-> None, ok |-> TRUE, tick |-> 0]
    /\ patch = None
    /\ polled = FALSE
    /\ connects = 0
    /\ refreshes = 0
    /\ uiCmds = 0
    /\ fails = 0
    /\ edits = 0

\* handle_input: any key clears the messages, then the mode's handler runs.
\* The loop reads at most one key per pass, so a command in the slot waits
\* for at most one key before it is dispatched.
Key(a) ==
    /\ app.pending_ssh_command = None \/ ~polled
    /\ app' = a
    /\ polled' = TRUE
    /\ UNCHANGED << lastDispatched, fails, patch >>

Pressed == clear_messages(app)

InMode(names) == app.mode.name \in names

SelectNext ==
    /\ InMode({"Table"}) /\ select_next(Pressed) # Pressed
    /\ Key(select_next(Pressed))
    /\ UNCHANGED << connects, refreshes, uiCmds, edits >>

SelectPrevious ==
    /\ InMode({"Table"}) /\ select_previous(Pressed) # Pressed
    /\ Key(select_previous(Pressed))
    /\ UNCHANGED << connects, refreshes, uiCmds, edits >>

StartDockerMode ==
    /\ InMode({"Table"}) /\ connects < MaxConnect
    /\ Key(start_docker_mode(Pressed))
    /\ connects' = connects + 1
    /\ UNCHANGED << refreshes, uiCmds, edits >>

ConfirmYes ==
    /\ InMode({"ConfirmDockerAction"})
    /\ app.mode.action.kind # "EnableSudo" => uiCmds < MaxUi
    /\ Key(execute_docker_action(Pressed, app.mode.action))
    /\ uiCmds' = IF app.mode.action.kind = "EnableSudo" THEN uiCmds ELSE uiCmds + 1
    /\ UNCHANGED << connects, refreshes, edits >>

ConfirmNo ==
    /\ InMode({"ConfirmDockerAction"})
    /\ Key(cancel_docker_action(Pressed, app.mode.return_mode))
    /\ UNCHANGED << connects, refreshes, uiCmds, edits >>

DockerSelectNext ==
    /\ InMode({"ContainerList"}) /\ docker_select_next(Pressed) # Pressed
    /\ Key(docker_select_next(Pressed))
    /\ UNCHANGED << connects, refreshes, uiCmds, edits >>

DockerSelectPrevious ==
    /\ InMode({"ContainerList"}) /\ docker_select_previous(Pressed) # Pressed
    /\ Key(docker_select_previous(Pressed))
    /\ UNCHANGED << connects, refreshes, uiCmds, edits >>

\* keys p r s S d X
DockerOpKey ==
    /\ OnContainer(app) /\ uiCmds < MaxUi
    /\ \E kind \in {"DockerPull", "DockerRestart", "DockerStop", "DockerStart",
                    "DockerRemove", "DockerRemoveAll"} :
          Key(docker_confirm(Pressed, kind))
    /\ UNCHANGED << connects, refreshes, uiCmds, edits >>

RunScriptKey ==
    /\ OnContainer(app) /\ uiCmds < MaxUi /\ run_script(Pressed) # Pressed
    /\ Key(run_script(Pressed))
    /\ UNCHANGED << connects, refreshes, uiCmds, edits >>

\* an operation that assigns the slot
Issue(a) ==
    /\ uiCmds < MaxUi
    /\ a # Pressed
    /\ Key(a)
    /\ uiCmds' = uiCmds + 1
    /\ UNCHANGED << connects, refreshes, edits >>

ViewLogs == OnContainer(app) /\ Issue(view_logs(Pressed))

\* key m in the logs viewer
LoadMoreLogs ==
    /\ InMode({"LogsViewer"}) /\ app.mode.tail_count < MaxTail
    /\ Key(load_more_logs(Pressed))
    /\ UNCHANGED << connects, refreshes, uiCmds, edits >>

\* keys D T I E
ViewContainer ==
    /\ OnContainer(app)
    /\ \E type \in {"ContainerStats", "ContainerTop", "ContainerInspect", "InspectContainerEnv"} :
          Issue(view_container(Pressed, type))

\* key r in the stats, process and inspect viewers: back to the list, select
\* the viewed container, issue the command again
ViewerRefresh ==
    /\ InMode({"StatsViewer", "ProcessViewer", "InspectViewer"})
    /\ LET type == CASE app.mode.name = "StatsViewer" -> "ContainerStats"
                     [] app.mode.name = "ProcessViewer" -> "ContainerTop"
                     [] app.mode.name = "InspectViewer" -> "ContainerInspect"
           a1 == [Pressed EXCEPT !.mode = ContainerList(app.mode.host_index),
                                 !.docker_selected_index = app.mode.container_index]
       IN /\ Key(view_container(a1, type))
          /\ UNCHANGED << connects, refreshes, uiCmds, edits >>

\* Esc in a viewer, the script editor or the file browser
Back ==
    /\ InMode({"LogsViewer", "StatsViewer", "ProcessViewer", "InspectViewer", "EnvInspector",
               "ScriptViewer", "ScriptEdit", "FileBrowser"})
    /\ Key([Pressed EXCEPT !.mode = ContainerList(app.mode.host_index)])
    /\ UNCHANGED << connects, refreshes, uiCmds, edits >>

ViewScript == OnContainer(app) /\ Issue(view_script(Pressed))

BrowseForScript == OnContainer(app) /\ Issue(browse_for_script(Pressed))

EditScript ==
    /\ OnContainer(app) /\ edit_script(Pressed) # Pressed
    /\ uiCmds < MaxUi
    /\ Key(edit_script(Pressed))
    /\ UNCHANGED << connects, refreshes, uiCmds, edits >>

RefreshKey ==
    /\ InMode({"ContainerList"}) /\ refreshes < MaxRefresh
    /\ Key(refresh_containers(Pressed))
    /\ refreshes' = refreshes + 1
    /\ UNCHANGED << connects, uiCmds, edits >>

GoBack ==
    /\ InMode({"ContainerList"})
    /\ Key(docker_go_back(Pressed))
    /\ UNCHANGED << connects, refreshes, uiCmds, edits >>

ScriptSelectNext ==
    /\ InMode({"ScriptEdit"})
    /\ app.mode.selected_index + 1 < Len(app.mode.editing_script.env_vars)
    /\ Key([Pressed EXCEPT !.mode.selected_index = @ + 1])
    /\ UNCHANGED << connects, refreshes, uiCmds, edits >>

StartAddEnvVar ==
    /\ InMode({"ScriptEdit"}) /\ edits < MaxEdits
    /\ Key(start_add_env_var(Pressed))
    /\ UNCHANGED << connects, refreshes, uiCmds, edits >>

StartEditEnvVar ==
    /\ InMode({"ScriptEdit"}) /\ edits < MaxEdits
    /\ Len(app.mode.editing_script.env_vars) > 0
    /\ Key(start_edit_env_var(Pressed))
    /\ UNCHANGED << connects, refreshes, uiCmds, edits >>

\* the characters typed into the editor's buffers; the key buffer takes
\* upper-case letters, digits and the underscore only
TypeEnvVar ==
    /\ InMode({"EnvVarEditor"})
    /\ \E k \in EditKeys \cup {app.mode.key_buffer}, v \in EditValues :
          /\ (app.mode.var_index >= 0 => k = app.mode.key_buffer)
          /\ app.mode.value_buffer # v
          /\ Key([Pressed EXCEPT !.mode.key_buffer = k, !.mode.value_buffer = v])
    /\ UNCHANGED << connects, refreshes, uiCmds, edits >>

SaveEnvVar ==
    /\ InMode({"EnvVarEditor"})
    /\ Key(save_env_var(Pressed))
    /\ edits' = IF app.mode.key_buffer = "" THEN edits ELSE edits + 1
    /\ UNCHANGED << connects, refreshes, uiCmds >>

CancelEnvVarEdit ==
    /\ InMode({"EnvVarEditor"})
    /\ Key(cancel_env_var_edit(Pressed))
    /\ UNCHANGED << connects, refreshes, uiCmds, edits >>

RemoveEnvVar ==
    /\ InMode({"ScriptEdit"}) /\ edits < MaxEdits
    /\ Len(app.mode.editing_script.env_vars) > 0
    /\ Key(remove_env_var_from_current_script(Pressed, app.mode.selected_index))
    /\ edits' = edits + 1
    /\ UNCHANGED << connects, refreshes, uiCmds >>

SaveCurrentScript == InMode({"ScriptEdit"}) /\ Issue(save_current_script(Pressed))

\* The host loop's dispatch step: take the command out of the slot, run it on
\* its host, and hand the result to the application
Taken == [app EXCEPT !.pending_ssh_command = None]

DispatchOk ==
    /\ app.pending_ssh_command # None
    /\ LET cmd == app.pending_ssh_command IN
       /\ app' = handle_ssh_output(Taken, RemoteOutput(cmd.host, cmd), cmd)
       /\ lastDispatched' = [cmd |-> cmd, ok |-> TRUE, tick |-> 1 - lastDispatched.tick]
    /\ polled' = FALSE
    /\ UNCHANGED << connects, refreshes, uiCmds, fails, edits, patch >>

\* a faulty failure path: the error is shown and nothing is promoted
OnFailureStalls(a) == set_error(a, "SSH command failed")

\* the executor reports a failure: the error is shown, the command is not put
\* back, and the next queued command is promoted
OnFailure(a) == process_next_docker_command(set_error(a, "SSH command failed"))

DispatchErr ==
    /\ app.pending_ssh_command # None
    /\ fails < MaxFail
    /\ app' = OnFailure(Taken)
    /\ lastDispatched' = [cmd |-> app.pending_ssh_command, ok |-> FALSE,
                          tick |-> 1 - lastDispatched.tick]
    /\ fails' = fails + 1
    /\ polled' = FALSE
    /\ UNCHANGED << connects, refreshes, uiCmds, edits, patch >>

Next ==
    \/ SelectNext \/ SelectPrevious \/ StartDockerMode
    \/ ConfirmYes \/ ConfirmNo
    \/ DockerSelectNext \/ DockerSelectPrevious
    \/ DockerOpKey \/ RunScriptKey
    \/ ViewLogs \/ LoadMoreLogs \/ ViewContainer \/ ViewerRefresh \/ Back
    \/ ViewScript \/ BrowseForScript \/ EditScript
    \/ RefreshKey \/ GoBack
    \/ ScriptSelectNext \/ StartAddEnvVar \/ StartEditEnvVar \/ TypeEnvVar
    \/ SaveEnvVar \/ CancelEnvVarEdit \/ RemoveEnvVar \/ SaveCurrentScript
    \/ DispatchOk

Spec == Init /\ [][Next]_vars

\* the discovery pipeline with an executor that may fail
NextFail ==
    \/ SelectNext \/ SelectPrevious \/ StartDockerMode
    \/ ConfirmYes \/ ConfirmNo
    \/ RefreshKey \/ GoBack
    \/ DispatchOk \/ DispatchErr

SpecFail == Init /\ [][NextFail]_vars

\* ------------------------------------------------------------------------
\* The patch function on its own (script_parser.rs): the editor's changes to
\* a parsed script, then apply_script_changes
\* ------------------------------------------------------------------------

\* how many changes the editor makes before the script is patched
MaxPatchEdits == 2
PatchKeys == {"A", "N"}
PatchValues == {"2", "p q", "a$b", "q\"r"}

\* flags but no -e line; a comment and a trailing command
ScriptFlags ==
    "NAME=web\n# keep me\ndocker run -d --name $NAME \\\n  -v /d:/d \\\n  nginx:latest\n\necho done\n"

\* no flag lines at all
ScriptBare == "NAME=c\n# no flags\ndocker rm $NAME\ndocker start $NAME\n"

\* the -e lines end the invocation
ScriptTail ==
    "NAME=d\ndocker run --name $NAME nginx \\\n  -e A=1 \\\n  -e B=2\n# end\necho ok\n"

PatchScripts == {ScriptApi, ScriptFlags, ScriptBare, ScriptTail}

PatchOf(raw) ==
    [script |-> parse_script(raw, "/root/clients/p/start.sh", "p"),
     original |-> extract_env_vars(raw),
     output |-> "", applied |-> FALSE, edits |-> 0]

InitPatch ==
    /\ app = NewApp
    /\ lastDispatched = [cmd |-> None, ok |-> TRUE, tick |-> 0]
    /\ connects = 0
    /\ refreshes = 0
    /\ uiCmds = 0
    /\ fails = 0
    /\ edits = 0
    /\ patch \in { PatchOf(raw) : raw \in PatchScripts }
    /\ polled = FALSE

\* one change of the editor to the env vars of the script
Edited(env_vars) ==
    /\ ~patch.applied /\ patch.edits < MaxPatchEdits
    /\ patch' = [patch EXCEPT !.script.env_vars = env_vars, !.edits = @ + 1]
    /\ UNCHANGED << app, lastDispatched, connects, refreshes, uiCmds, fails, edits, polled >>

\* save_env_var with no index: the new variable is appended
PatchAdd ==
    /\ ~patch.applied
    /\ \E k \in PatchKeys, v \in PatchValues :
          Edited(Append(patch.script.env_vars, EnvVar(k, v)))

\* save_env_var with an index: the variable's value is replaced
PatchUpdate ==
    \E i \in 1..Len(patch.script.env_vars), v \in PatchValues :
        /\ patch.script.env_vars[i].value # v
        /\ Edited([patch.script.env_vars EXCEPT ![i].value = v])

\* remove_env_var_from_current_script
PatchRemove ==
    \E i \in 1..Len(patch.script.env_vars) :
        Edited(SubSeq(patch.script.env_vars, 1, i - 1)
               \o SubSeq(patch.script.env_vars, i + 1, Len(patch.script.env_vars)))

PatchApply ==
    /\ ~patch.applied
    /\ patch' = [patch EXCEPT !.output = apply_script_changes(patch.script, patch.original),
                              !.applied = TRUE]
    /\ UNCHANGED << app, lastDispatched, connects, refreshes, uiCmds, fails, edits, polled >>

NextPatch == PatchAdd \/ PatchUpdate \/ PatchRemove \/ PatchApply

SpecPatch == InitPatch /\ [][NextPatch]_vars

\* ------------------------------------------------------------------------
\* The env-var functions on their own (script_parser.rs): add_env_var,
\* update_env_var, remove_env_var and generate_script applied to script texts
\* ------------------------------------------------------------------------

\* how many functions are applied one after the other
MaxEnvOps == 2
EnvKeys == {"FOO", "K"}
EnvValues == {"baz", "p q", "a$b", "q\"r", ""}

\* NAME='api' and three -e flags, each on its own continuation line
EnvOwnLines ==
    "#!/bin/bash\nNAME='api'\ndocker run -d --name $NAME \\\n  -e FOO=\"bar\" \\\n"
    \o "  -e B='x y' \\\n  -e C=3 \\\n  reg/api:1\n"

\* the -e flags share the line of the command with other arguments
EnvShared ==
    "NAME=web\ndocker run -d --name $NAME -e FOO=\"bar\" -e B=2 nginx:latest\necho ok\n"

\* key A twice: unquoted first, double-quoted later
EnvDup ==
    "NAME=dup\ndocker run --name $NAME \\\n  -e A=1 \\\n  -e FOO=\"bar\" \\\n  -e A=\"2\" \\\n  img\n"

EnvTexts == {EnvOwnLines, EnvShared, EnvDup, ScriptFlags, ScriptBare}

EnvOp(op, key, value) == [op |-> op, key |-> key, value |-> value]

InitEnv ==
    /\ app = NewApp
    /\ lastDispatched = [cmd |-> None, ok |-> TRUE, tick |-> 0]
    /\ connects = 0
    /\ refreshes = 0
    /\ uiCmds = 0
    /\ fails = 0
    /\ edits = 0
    /\ patch \in { [texts |-> << text >>, ops |-> << >>] : text \in EnvTexts }
    /\ polled = FALSE

\* the text the next function is applied to
EnvText == patch.texts[Len(patch.texts)]

\* one function was applied to the text: its call and its result are recorded
EnvApplied(op, out) ==
    /\ patch' = [texts |-> Append(patch.texts, out), ops |-> Append(patch.ops, op)]
    /\ UNCHANGED << app, lastDispatched, connects, refreshes, uiCmds, fails, edits, polled >>

EnvAdd ==
    /\ Len(patch.ops) < MaxEnvOps
    /\ \E k \in EnvKeys, v \in EnvValues :
          EnvApplied(EnvOp("add", k, v), add_env_var(EnvText, k, v))

EnvUpdate ==
    /\ Len(patch.ops) < MaxEnvOps
    /\ \E k \in EnvKeys, v \in EnvValues :
          EnvApplied(EnvOp("update", k, v), update_env_var(EnvText, k, v))

EnvRemove ==
    /\ Len(patch.ops) < MaxEnvOps
    /\ \E k \in EnvKeys :
          EnvApplied(EnvOp("remove", k, ""), remove_env_var(EnvText, k))

\* the script parsed from the text, the variable k = v added in the editor
\* (save_env_var pushes it), is written out by generate_script
EnvGenerate ==
    /\ Len(patch.ops) < MaxEnvOps
    /\ \E k \in EnvKeys, v \in EnvValues :
          LET script == parse_script(EnvText, "/root/clients/p/start.sh", "p") IN
          /\ ~HasKey(script.env_vars, k)
          /\ EnvApplied(EnvOp("generate", k, v),
                        generate_script([script EXCEPT
                                            !.env_vars = Append(@, EnvVar(k, v))]))

NextEnv == EnvAdd \/ EnvUpdate \/ EnvRemove \/ EnvGenerate

SpecEnv == InitEnv /\ [][NextEnv]_vars

\* ------------------------------------------------------------------------
\* The script associations over several connections: the application starts
\* with the association index its metadata file holds, the operator creates,
\* edits and saves scripts, leaves docker mode and enters it again
\* ------------------------------------------------------------------------

\* how many times docker mode is entered when the operator comes back to it
MaxReconnect == 2

\* what load_metadata may find: no association, or one that a script chosen
\* in the file browser left for container api of host prod
SavedIndexes ==
    { {}, { [host |-> "prod", container |-> "api", path |-> "/root/clients/beta/run.sh"] } }

InitScript ==
    /\ app \in { [NewApp EXCEPT !.metadata = index] : index \in SavedIndexes }
    /\ lastDispatched = [cmd |-> None, ok |-> TRUE, tick |-> 0]
    /\ patch = None
    /\ connects = 0
    /\ refreshes = 0
    /\ uiCmds = 0
    /\ fails = 0
    /\ edits = 0
    /\ polled = FALSE

\* key d in the host table after docker mode was left
StartDockerModeAgain ==
    /\ InMode({"Table"}) /\ connects >= MaxConnect /\ connects < MaxReconnect
    /\ Key(start_docker_mode(Pressed))
    /\ connects' = connects + 1
    /\ UNCHANGED << refreshes, uiCmds, edits >>

\* key n in the container list
CreateScript ==
    /\ OnContainer(app) /\ create_script(Pressed).mode # Pressed.mode
    /\ Key(create_script(Pressed))
    /\ UNCHANGED << connects, refreshes, uiCmds, edits >>

NextScript ==
    \/ SelectNext \/ SelectPrevious \/ StartDockerMode \/ StartDockerModeAgain
    \/ ConfirmYes \/ ConfirmNo
    \/ DockerSelectNext \/ DockerSelectPrevious
    \/ EditScript \/ CreateScript \/ SaveCurrentScript \/ Back
    \/ RefreshKey \/ GoBack
    \/ DispatchOk

SpecScript == InitScript /\ [][NextScript]_vars

\* ------------------------------------------------------------------------
\* The output parsers on their own (docker/parser.rs, models/docker/
\* container.rs) and the script write command (docker/discovery.rs)
\* ------------------------------------------------------------------------

\* str::trim_matches(|c| c is one of chars)
RECURSIVE TrimMatchesAny(_, _)
TrimMatchesAny(s, chars) ==
    IF s /= "" /\ Ch(s, 1) \in chars THEN TrimMatchesAny(SubSeq(s, 2, Len(s)), chars)
    ELSE IF s /= "" /\ Ch(s, Len(s)) \in chars
    THEN TrimMatchesAny(SubSeq(s, 1, Len(s) - 1), chars)
    ELSE s

\* the number of fields of a stats line: CPU%|MemUsage|MemPerc|NetIO|BlockIO|PIDs
StatsFields == 6

\* output.lines().next().unwrap_or("")
FirstLine(output) == IF Len(Lines(output)) >= 1 THEN Lines(output)[1] ELSE ""

\* parts.get(i - 1).unwrap_or(&"--")
FieldOr(parts, i) == IF Len(parts) >= i THEN parts[i] ELSE "--"

\* parts.get(1).map(|s| s.split('/').next().unwrap_or(s).trim())
MemoryUsageOf(parts) == IF Len(parts) >= 2 THEN Trim(Split(parts[2], "/")[1]) ELSE "--"

\* parts.get(1).map(|s| s.split('/').nth(1).unwrap_or("--").trim())
MemoryLimitOf(parts) ==
    IF Len(parts) >= 2 THEN Trim(FieldOr(Split(parts[2], "/"), 2)) ELSE "--"

StatsOf(parts) ==
    [cpu_percent    |-> FieldOr(parts, 1),
     memory_usage   |-> MemoryUsageOf(parts),
     memory_limit   |-> MemoryLimitOf(parts),
     memory_percent |-> FieldOr(parts, 3),
     net_io         |-> FieldOr(parts, 4),
     block_io       |-> FieldOr(parts, 5),
     pids           |-> FieldOr(parts, 6)]

\* parse_docker_stats: the first line, split at '|'
parse_docker_stats(output) == StatsOf(Split(FirstLine(output), "|"))

\* extract_json_value: what stands between the first and the second colon,
\* without the surrounding blanks, quotes and commas
extract_json_value(line) ==
    TrimMatchesAny(Trim(IF Len(Split(line, ":")) >= 2 THEN Split(line, ":")[2] ELSE ""),
                   {"\"", ",", " "})

\* ContainerInfo::default()
DefaultInfo ==
    [id |-> "", name |-> "", image |-> "", status |-> "", created |-> "",
     started |-> "", ip_address |-> "", networks |-> << >>, ports |-> << >>,
     volumes |-> << >>, restart_policy |-> "", health_status |-> None,
     labels |-> << >>]

\* one turn of the loop of parse_docker_inspect, line being trimmed
InspectLine(info, line) ==
    IF Contains(line, "\"Id\":") THEN [info EXCEPT !.id = extract_json_value(line)]
    ELSE IF Contains(line, "\"Name\":")
    THEN [info EXCEPT !.name = TrimStartMatches(extract_json_value(line), "/")]
    ELSE IF Contains(line, "\"Image\":") /\ info.image = ""
    THEN [info EXCEPT !.image = extract_json_value(line)]
    ELSE IF Contains(line, "\"Status\":") /\ info.status = ""
    THEN [info EXCEPT !.status = extract_json_value(line)]
    ELSE IF Contains(line, "\"Created\":") /\ info.created = ""
    THEN [info EXCEPT !.created = extract_json_value(line)]
    ELSE IF Contains(line, "\"StartedAt\":")
    THEN [info EXCEPT !.started = extract_json_value(line)]
    ELSE IF Contains(line, "\"IPAddress\":") /\ info.ip_address = ""
    THEN (IF extract_json_value(line) /= ""
          THEN [info EXCEPT !.ip_address = extract_json_value(line)]
          ELSE info)
    ELSE info

RECURSIVE InspectFrom(_, _, _)
InspectFrom(lines, i, info) ==
    IF i > Len(lines) THEN info
    ELSE InspectFrom(lines, i + 1, InspectLine(info, Trim(lines[i])))

\* parse_docker_inspect: a scan of the lines of the JSON text
parse_docker_inspect(output) == InspectFrom(Lines(output), 1, DefaultInfo)

\* ---- the inputs ----

\* status texts as docker ps prints them, and some it does not print
StatusHeads == {"Up", "up", "UP", "Exited", "EXITED", "Paused", "Restarting",
                "Dead", "Created", "Removal In Progress", ""}
StatusTails == {"", " 2 hours", " (0) 3 days ago", " (137) 2 days ago",
                " (Paused)", " (x)", " (dead)"}
StatusTexts == { h \o t : h \in StatusHeads, t \in StatusTails }

StatsRow == << "1.50%", "10MiB / 1GiB", "0.96%", "1kB / 2kB", "0B / 0B", "3" >>

\* the first n fields of a stats line
RECURSIVE StatsPrefix(_)
StatsPrefix(n) ==
    IF n = 0 THEN ""
    ELSE IF n = 1 THEN StatsRow[1]
    ELSE StatsPrefix(n - 1) \o "|" \o StatsRow[n]

StatsOutputs ==
    { StatsPrefix(n) \o rest : n \in 0..StatsFields, rest \in {"", "\n", "\n9%|x\n"} }
    \cup {"2%|10MiB", "2%|10MiB|1%|a|b|7|extra\n"}

\* how many lines an inspect output has
MaxInspectLines == 2

InspectRows ==
    {"        \"Id\": \"abc123\",", "            \"Id\": \"net9\",",
     "        \"Name\": \"/web\",", "                \"Name\": \"always\",",
     "        \"Image\": \"sha256:aa\",", "            \"Image\": \"nginx\",",
     "            \"Status\": \"running\",", "                \"Status\": \"healthy\",",
     "        \"Created\": \"2024\",",
     "            \"StartedAt\": \"t1\",", "                \"StartedAt\": \"t2\",",
     "            \"IPAddress\": \"\",", "                    \"IPAddress\": \"10.0.0.2\",",
     "        \"Path\": \"/bin/sh\","}

RECURSIVE InspectOutputs(_)
InspectOutputs(n) ==
    IF n = 0 THEN {""}
    ELSE InspectOutputs(n - 1)
         \cup { o \o row \o "\n" : o \in InspectOutputs(n - 1), row \in InspectRows }

\* script texts to write: read from a host, or written out by generate_script
WriteContents ==
    {ScriptApi, ScriptFlags, ScriptBare, "echo hi\n", "echo \"a b\"\necho $HOME",
     generate_script(parse_script(ScriptApi, "/root/clients/shop/start.sh", "shop"))}

WritePaths == {"/root/clients/shop/start.sh", "/srv/my app/run.sh"}

ParseInputs ==
    { [fn |-> "from_docker_status", input |-> s, path |-> ""] : s \in StatusTexts }
    \cup { [fn |-> "parse_docker_stats", input |-> s, path |-> ""] : s \in StatsOutputs }
    \cup { [fn |-> "parse_docker_inspect", input |-> s, path |-> ""] :
             s \in InspectOutputs(MaxInspectLines) }
    \cup { [fn |-> "write_script_command", input |-> s, path |-> p] :
             s \in WriteContents, p \in WritePaths }

InitParse ==
    /\ app = NewApp
    /\ lastDispatched = [cmd |-> None, ok |-> TRUE, tick |-> 0]
    /\ connects = 0
    /\ refreshes = 0
    /\ uiCmds = 0
    /\ fails = 0
    /\ edits = 0
    /\ patch \in { [call |-> c, done |-> FALSE, out |-> None] : c \in ParseInputs }
    /\ polled = FALSE

\* the function was applied to its input: its result is recorded
Parsed(out) ==
    /\ patch' = [patch EXCEPT !.done = TRUE, !.out = out]
    /\ UNCHANGED << app, lastDispatched, connects, refreshes, uiCmds, fails, edits, polled >>

ClassifyStatus ==
    /\ ~patch.done
    /\ patch.call.fn = "from_docker_status"
    /\ Parsed(from_docker_status(patch.call.input))

ParseStats ==
    /\ ~patch.done
    /\ patch.call.fn = "parse_docker_stats"
    /\ Parsed(parse_docker_stats(patch.call.input))

ParseInspect ==
    /\ ~patch.done
    /\ patch.call.fn = "parse_docker_inspect"
    /\ Parsed(parse_docker_inspect(patch.call.input))

WriteScript ==
    /\ ~patch.done
    /\ patch.call.fn = "write_script_command"
    /\ Parsed(write_script_command(patch.call.path, patch.call.input))

NextParse == ClassifyStatus \/ ParseStats \/ ParseInspect \/ WriteScript

SpecParse == InitParse /\ [][NextParse]_vars

\* ------------------------------------------------------------------------
\* The file browsers (app.rs, utils/input.rs): the script browser of docker
\* mode and the path browser of rsync mode, with an executor that takes its
\* time, so that the operator's keys are read while a command waits
\* ------------------------------------------------------------------------

\* how many keys the operator presses in the browsers and in rsync mode
MaxBrowseKeys == 6

\* dirs::home_dir() of the operator's machine
LocalHome == "/home/op"

\* the operator's files: what fs::read_dir yields for a directory
LocalFiles(path) ==
    IF path = "/" THEN << [name |-> "home", is_dir |-> TRUE] >>
    ELSE IF path = "/home" THEN << [name |-> "op", is_dir |-> TRUE] >>
    ELSE IF path = LocalHome
    THEN << [name |-> "notes.txt", is_dir |-> FALSE], [name |-> ".ssh", is_dir |-> TRUE],
            [name |-> "work", is_dir |-> TRUE] >>
    ELSE IF path = LocalHome \o "/work" THEN << [name |-> "a.txt", is_dir |-> FALSE] >>
    ELSE << >>

\* Path::parent: none for "" and "/", else the path without its last component
ParentOf(path) ==
    IF path = "" \/ path = "/" THEN NoString
    ELSE IF ~Contains(path, "/") THEN SomeString("")
    ELSE IF Len(path) - Len(Basename(path)) = 1 THEN SomeString("/")
    ELSE SomeString(SubSeq(path, 1, Len(path) - Len(Basename(path)) - 1))

\* list_local_directory: the parent entry unless at the root, then the
\* entries that are not hidden, sorted
list_local_directory(path) ==
    LET shown == SelectSeq(LocalFiles(path), LAMBDA f : ~StartsWith(f.name, "."))
        items == [i \in 1..Len(shown) |->
                    [name |-> shown[i].name, is_dir |-> shown[i].is_dir, is_script |-> FALSE]]
    IN  (IF path # "/" THEN << ParentEntry >> ELSE << >>) \o SortEntries(items, Len(items))

\* start_rsync: rsync mode for the selected host
start_rsync(a) ==
    IF a.selected_index + 1 \in 1..Len(Hosts)
    THEN [a EXCEPT !.mode = Rsync(a.selected_index + 1, "", "", TRUE, "SourcePath", FALSE)]
    ELSE a

\* the source is remote when pulling from the host, the destination when
\* pushing to it
IsRemoteField(focused_field, sync_to_host) ==
    IF focused_field = "SourcePath" THEN ~sync_to_host ELSE sync_to_host

\* start_rsync_browse
start_rsync_browse(a) ==
    IF a.mode.name = "Rsync"
    THEN IF IsRemoteField(a.mode.focused_field, a.mode.sync_to_host)
         THEN [SetPending(a, [PendingSshCommand(a.mode.host_index,
                                   "ls -la ~ 2>/dev/null | tail -n +2",
                                   "RsyncListDirectory")
                               EXCEPT !.path = "~"])
               EXCEPT !.mode = RsyncFileBrowser(a.mode.host_index, "~", << >>, TRUE, TRUE,
                                                a.mode)]
         ELSE [a EXCEPT !.mode = RsyncFileBrowser(a.mode.host_index, LocalHome,
                                                  list_local_directory(LocalHome),
                                                  FALSE, FALSE, a.mode)]
    ELSE a

\* rsync_navigate_to
rsync_navigate_to(a, path) ==
    IF a.mode.name = "RsyncFileBrowser"
    THEN IF a.mode.is_remote
         THEN [SetPending(a, [PendingSshCommand(a.mode.host_index,
                                   "ls -la " \o path \o " 2>/dev/null | tail -n +2",
                                   "RsyncListDirectory")
                               EXCEPT !.path = path])
               EXCEPT !.mode.current_path = path, !.mode.entries = << >>,
                      !.mode.selected_index = 0, !.mode.loading = TRUE]
         ELSE [a EXCEPT !.mode.current_path = path,
                        !.mode.entries = list_local_directory(path),
                        !.mode.selected_index = 0, !.mode.loading = FALSE]
    ELSE a

\* current_path joined with a name
Joined(current_path, name) ==
    IF EndsWith(current_path, "/") THEN current_path \o name
    ELSE current_path \o "/" \o name

\* the rsync mode a browser goes back to
RsyncOf(m, source_path, dest_path) ==
    Rsync(m.host_index, source_path, dest_path, m.sync_to_host, m.target_field, m.compress)

\* rsync_select_current_path: the directory shown, or the selected entry
rsync_select_current_path(a) ==
    IF a.mode.name = "RsyncFileBrowser"
    THEN LET m == a.mode
             final_path ==
                 IF m.selected_index < Len(m.entries)
                 THEN LET entry == m.entries[m.selected_index + 1] IN
                      IF entry.name = ".." THEN m.current_path
                      ELSE IF entry.is_dir THEN Joined(m.current_path, entry.name) \o "/"
                      ELSE Joined(m.current_path, entry.name)
                 ELSE m.current_path
         IN [a EXCEPT !.mode =
                IF m.target_field = "SourcePath"
                THEN RsyncOf(m, final_path, m.dest_path)
                ELSE RsyncOf(m, m.source_path, final_path)]
    ELSE a

\* rsync_cancel_browse
rsync_cancel_browse(a) ==
    IF a.mode.name = "RsyncFileBrowser"
    THEN [a EXCEPT !.mode = RsyncOf(a.mode, a.mode.source_path, a.mode.dest_path)]
    ELSE a

OtherField(focused_field) == IF focused_field = "SourcePath" THEN "DestPath" ELSE "SourcePath"

\* handle_rsync_input outside of the editing mode
handle_rsync_input(a, key) ==
    IF a.mode.name # "Rsync" \/ a.mode.editing_mode THEN a
    ELSE CASE key \in {"j", "k"} -> [a EXCEPT !.mode.focused_field = OtherField(@)]
           [] key = "r" -> [a EXCEPT !.mode.sync_to_host = ~@]
           [] key = "b" -> start_rsync_browse(a)
           [] key = "Esc" -> [a EXCEPT !.mode = Table]
           [] OTHER -> a

\* the selection moves within the entries
SelectDown(a) ==
    IF a.mode.selected_index + 1 < Len(a.mode.entries)
    THEN [a EXCEPT !.mode.selected_index = @ + 1] ELSE a

SelectUp(a) ==
    IF a.mode.selected_index > 0 THEN [a EXCEPT !.mode.selected_index = @ - 1] ELSE a

\* handle_rsync_file_browser_input
handle_rsync_file_browser_input(a, key) ==
    IF a.mode.name # "RsyncFileBrowser" THEN a
    ELSE IF a.mode.loading THEN (IF key = "Esc" THEN rsync_cancel_browse(a) ELSE a)
    ELSE CASE key = "j" -> SelectDown(a)
           [] key = "k" -> SelectUp(a)
           [] key = "Enter" ->
                IF a.mode.selected_index < Len(a.mode.entries)
                THEN LET entry == a.mode.entries[a.mode.selected_index + 1] IN
                     IF entry.is_dir
                     THEN rsync_navigate_to(a,
                              IF entry.name = ".."
                              THEN (IF ParentOf(a.mode.current_path).some
                                    THEN ParentOf(a.mode.current_path).value ELSE "/")
                              ELSE Joined(a.mode.current_path, entry.name))
                     ELSE rsync_select_current_path(a)
                ELSE a
           [] key = " " -> rsync_select_current_path(a)
           [] key = "Esc" -> rsync_cancel_browse(a)
           [] OTHER -> a

\* str::trim_end_matches(c) for a one-character c
RECURSIVE TrimEndMatches(_, _)
TrimEndMatches(s, c) ==
    IF EndsWith(s, c) THEN TrimEndMatches(SubSeq(s, 1, Len(s) - 1), c) ELSE s

\* the path without its trailing slashes, joined with a name
Under(current_path, name) == TrimEndMatches(current_path, "/") \o "/" \o name

\* handle_file_browser_input
handle_file_browser_input(a, key) ==
    IF a.mode.name # "FileBrowser" THEN a
    ELSE IF a.mode.loading
    THEN (IF key = "Esc" THEN [a EXCEPT !.mode = ContainerList(a.mode.host_index)] ELSE a)
    ELSE CASE key = "j" -> SelectDown(a)
           [] key = "k" -> SelectUp(a)
           [] key = "Enter" ->
                IF a.mode.selected_index < Len(a.mode.entries)
                THEN LET entry == a.mode.entries[a.mode.selected_index + 1]
                         m == a.mode
                     IN IF entry.is_dir /\ m.host_index \in 1..Len(Hosts)
                        THEN LET new_path ==
                                     IF entry.name = ".."
                                     THEN (IF ParentOf(m.current_path).some
                                           THEN ParentOf(m.current_path).value
                                           ELSE m.current_path)
                                     ELSE Under(m.current_path, entry.name)
                             IN [SetPending(a, [PendingSshCommand(m.host_index,
                                                    sudo_cmd(a, list_directory_command(new_path)),
                                                    "ListDirectory")
                                                EXCEPT !.path = new_path])
                                 EXCEPT !.mode.current_path = new_path,
                                        !.mode.loading = TRUE, !.mode.selected_index = 0]
                        ELSE IF entry.is_script /\ m.host_index \in 1..Len(Hosts)
                        THEN SetPending(a, [PendingSshCommand(m.host_index,
                                                sudo_cmd(a, "cat " \o Under(m.current_path, entry.name)),
                                                "ReadScriptForContainer")
                                            EXCEPT !.script_path = Under(m.current_path, entry.name),
                                                   !.container_index = m.container_index])
                        ELSE a
                ELSE a
           [] key = "Esc" -> [a EXCEPT !.mode = ContainerList(a.mode.host_index)]
           [] OTHER -> a

\* a key of the browsers: it is read whether or not a command waits
BrowseKey(a) ==
    /\ uiCmds < MaxBrowseKeys
    /\ a # Pressed
    /\ app' = a
    /\ uiCmds' = uiCmds + 1
    /\ polled' = TRUE
    /\ UNCHANGED << lastDispatched, connects, refreshes, fails, edits, patch >>

\* key r of the host table
StartRsync == InMode({"Table"}) /\ BrowseKey(start_rsync(Pressed))

RsyncKey ==
    /\ InMode({"Rsync"})
    /\ \E key \in {"j", "r", "b", "Esc"} : BrowseKey(handle_rsync_input(Pressed, key))

RsyncFileBrowserKey ==
    /\ InMode({"RsyncFileBrowser"})
    /\ \E key \in {"j", "Enter", " ", "Esc"} :
          BrowseKey(handle_rsync_file_browser_input(Pressed, key))

\* key b of the container list
BrowseScript == OnContainer(app) /\ BrowseKey(browse_for_script(Pressed))

FileBrowserKey ==
    /\ InMode({"FileBrowser"})
    /\ \E key \in {"j", "Enter", "Esc"} : BrowseKey(handle_file_browser_input(Pressed, key))

NextBrowse ==
    \/ SelectNext \/ StartDockerMode \/ ConfirmYes \/ ConfirmNo
    \/ StartRsync \/ RsyncKey \/ RsyncFileBrowserKey
    \/ BrowseScript \/ FileBrowserKey
    \/ DispatchOk

SpecBrowse == Init /\ [][NextBrowse]_vars

\* ------------------------------------------------------------------------
\* Properties
\* ------------------------------------------------------------------------

\* the slot followed by the queue: the commands waiting to be dispatched
Waiting(a) ==
    (IF a.pending_ssh_command = None THEN << >> ELSE << a.pending_ssh_command >>)
    \o a.pending_docker_commands

\* this step dispatched the command in the slot
Dispatched == lastDispatched'.tick # lastDispatched.tick
DispatchedOk == Dispatched /\ lastDispatched'.ok
DispatchedErr == Dispatched /\ ~lastDispatched'.ok

\* the application is in docker mode with nothing in the slot or the queue
Quiescent(a) ==
    /\ a.current_docker_host_index # 0
    /\ a.pending_ssh_command = None
    /\ a.pending_docker_commands = << >>

LastWas(type) == lastDispatched.cmd # None /\ lastDispatched.cmd.type = type

\* the state of the application once the result of the dispatched command is
\* handled and before the next command is promoted
Handled ==
    HandleBranch(Taken, RemoteOutput(app.pending_ssh_command.host, app.pending_ssh_command),
                 app.pending_ssh_command)

\* C1: the promotion after a result moves a command from the queue into the
\* slot only when the slot is empty, the command it moves is the one at the
\* front of the queue, which is the oldest one enqueued, and the rest of the
\* queue keeps its order; when the slot is occupied (the handler put a
\* command there) the slot and the queue are left as they are.
C1_PromotesFrontWhenIdle ==
    [][DispatchedOk =>
        LET q == Handled.pending_docker_commands IN
        IF Handled.pending_ssh_command = None /\ q # << >>
        THEN /\ app'.pending_ssh_command = q[1]
             /\ app'.pending_docker_commands = Tail(q)
             /\ \A i \in 2..Len(q) : q[1].id < q[i].id
             /\ \A i \in 1..Len(app'.pending_docker_commands) :
                    app'.pending_docker_commands[i] # app'.pending_ssh_command
        ELSE /\ app'.pending_ssh_command = Handled.pending_ssh_command
             /\ app'.pending_docker_commands = q]_vars

\* the project listing was handled, the first FindScripts was promoted and
\* the second one waits
C1_Witness ==
    /\ LastWas("ListProjects") /\ lastDispatched.ok
    /\ app.pending_ssh_command # None
    /\ app.pending_ssh_command.type = "FindScripts"
    /\ app.pending_ssh_command.project_name = "alpha"
    /\ Len(app.pending_docker_commands) = 1
    /\ app.pending_docker_commands[1].project_name = "beta"

\* C2: no discovery command is lost; in particular a key of the operator in
\* docker mode (other than a refresh or leaving docker mode) never replaces a
\* command that was promoted from the queue into the slot and is not yet
\* dispatched.
C2_PromotedCommandKept ==
    [][(/\ app.pending_ssh_command # None
        /\ app.pending_ssh_command.type \in QueueTypes
        /\ ~Dispatched
        /\ app'.current_docker_host_index # 0
        /\ app'.cycle = app.cycle)
       => app'.pending_ssh_command = app.pending_ssh_command]_vars

\* C3: when the script being saved has raw content, the text of the
\* WriteScript command is the patch of that raw content.
C3_SavePatchesExistingScript ==
    [][(/\ app.mode.name = "ScriptEdit"
        /\ app.mode.editing_script.raw_content # ""
        /\ app'.pending_ssh_command # None
        /\ app'.pending_ssh_command # app.pending_ssh_command
        /\ app'.pending_ssh_command.type = "WriteScript")
       => app'.pending_ssh_command.command =
              sudo_cmd(app, write_script_command(app.mode.editing_script.path,
                  apply_script_changes(app.mode.editing_script,
                      extract_env_vars(app.mode.editing_script.raw_content))))]_vars

\* the keys apply_script_changes removes, rewrites or adds
RemovedKeys(p) ==
    { p.original[i].key : i \in 1..Len(p.original) }
    \ { p.script.env_vars[i].key : i \in 1..Len(p.script.env_vars) }

AddedKeys(p) ==
    { p.script.env_vars[i].key : i \in 1..Len(p.script.env_vars) }
    \ { p.original[i].key : i \in 1..Len(p.original) }

AffectedKeys(p) ==
    { p.original[i].key : i \in 1..Len(p.original) }
    \cup { p.script.env_vars[i].key : i \in 1..Len(p.script.env_vars) }

\* the line carries the -e KEY= of one of the keys
Carries(line, keys) ==
    \E k \in keys : IsMatch(line, << Lit("-e"), Run("space", 0), Lit(k \o "=") >>)

\* a line without its continuation backslash, and with one
Stripped(line) == TrimEnd(TrimEndBackslashes(TrimEnd(line)))
Continued(line) == TrimEnd(line) \o " \\"

\* Walk the original lines ls from i and the output lines os from j: every
\* original line that carries no affected key is found in the output, in
\* order, either as it is, or without its continuation backslash when the
\* next original line was deleted, or with a continuation backslash as the
\* anchor of an insertion (anchors counts the insertions left).
RECURSIVE FrameKept(_, _, _, _, _, _)
FrameKept(ls, i, os, j, p, anchors) ==
    IF i > Len(ls) THEN TRUE
    ELSE IF Carries(ls[i], AffectedKeys(p)) THEN FrameKept(ls, i + 1, os, j, p, anchors)
    ELSE IF j > Len(os) THEN FALSE
    ELSE IF os[j] = ls[i] THEN FrameKept(ls, i + 1, os, j + 1, p, anchors)
    ELSE IF /\ i < Len(ls) /\ Carries(ls[i + 1], RemovedKeys(p))
            /\ os[j] = Stripped(ls[i])
         THEN FrameKept(ls, i + 1, os, j + 1, p, anchors)
    ELSE IF anchors > 0 /\ os[j] \in {Continued(ls[i]), Continued(Stripped(ls[i]))}
         THEN FrameKept(ls, i + 1, os, j + 1, p, anchors - 1)
    ELSE FrameKept(ls, i, os, j + 1, p, anchors)

\* C4: apply_script_changes keeps every line of the raw text that does not
\* carry the -e KEY= of a removed, rewritten or added key, byte for byte and
\* in order, but for a continuation backslash stripped before a deleted line
\* or appended to the anchor of an insertion.
C4_PatchKeepsUnrelatedLines ==
    (patch # None /\ patch.applied) =>
        FrameKept(Lines(patch.script.raw_content), 1, Lines(patch.output), 1, patch,
                  Cardinality(AddedKeys(patch)))

\* a script with a comment, a port flag and other commands was patched with
\* one key removed and one added
C4_Witness ==
    /\ patch # None /\ patch.applied
    /\ patch.script.raw_content = ScriptApi
    /\ RemovedKeys(patch) # {} /\ AddedKeys(patch) # {}
    /\ patch.output # patch.script.raw_content

\* no path is twice in the flat script list
NoPathTwice(scripts) ==
    \A i, j \in 1..Len(scripts) : scripts[i].path = scripts[j].path => i = j

\* C5: the inventory is replaced by a refresh, not merged: whenever the queue
\* has drained, whatever refreshes ran before, the flat script list holds the
\* result of one discovery, so that no script path is in it twice.
C5_RefreshReplacesInventory ==
    Quiescent(app) => NoPathTwice(app.scripts)

\* a sequence as a bag
BagOf(s) ==
    [x \in { s[i] : i \in 1..Len(s) } |-> Cardinality({ i \in 1..Len(s) : s[i] = x })]

Unassociated(containers) ==
    { [containers[i] EXCEPT !.script_path = NoPath] : i \in 1..Len(containers) }

ProjectsBag(projects) ==
    BagOf([i \in 1..Len(projects) |-> [projects[i] EXCEPT !.scripts = BagOf(@)]])

\* C6: when a discovery that ran to completion is followed by a refresh that
\* runs to completion, the containers, projects and scripts are those of the
\* first discovery up to order; and the containers parsed from the second
\* docker ps are those parsed from the first.
C6_DiscoveryTwiceSameInventory ==
    /\ (uiCmds = 0 /\ app.prev # None /\ app.clean /\ Quiescent(app)) =>
          /\ BagOf(app.containers) = BagOf(app.prev.containers)
          /\ ProjectsBag(app.projects) = ProjectsBag(app.prev.projects)
          /\ BagOf(app.scripts) = BagOf(app.prev.scripts)
    /\ (app.prev # None /\ LastWas("DockerPs") /\ lastDispatched.cmd.cycle = app.cycle) =>
          Unassociated(app.containers) = Unassociated(app.prev.containers)

\* the second discovery has drained on the host that has a deployment script
C6_Witness ==
    /\ uiCmds = 0 /\ app.prev # None /\ app.clean /\ Quiescent(app)
    /\ app.cycle = 2
    /\ app.scripts # << >> /\ app.containers # << >>
    /\ LastWas("ReadScript")

\* the trimmed non-blank lines of a listing
RECURSIVE Listed(_, _)
Listed(lines, i) ==
    IF i > Len(lines) THEN << >>
    ELSE IF Trim(lines[i]) = "" THEN Listed(lines, i + 1)
    ELSE << Trim(lines[i]) >> \o Listed(lines, i + 1)

\* C7: handling a ListProjects result replaces the projects by the listed
\* ones and appends one FindScripts command per project to the tail of the
\* queue, in listing order; handling a FindScripts result appends one
\* ReadScript command per non-blank path line, with the project name of the
\* FindScripts command; nothing else is enqueued and what waited stays ahead.
C7_FanOutOnePerChild ==
    [][(/\ DispatchedOk
        /\ app.pending_ssh_command.type \in {"ListProjects", "FindScripts"}
        /\ app.current_docker_host_index # 0)
       => LET cmd == app.pending_ssh_command
              wanted == Listed(Lines(RemoteOutput(cmd.host, cmd)), 1)
              before == app.pending_docker_commands
              after == Waiting(app')
              added == SubSeq(after, Len(before) + 1, Len(after))
          IN /\ Len(after) = Len(before) + Len(wanted)
             /\ SubSeq(after, 1, Len(before)) = before
             /\ IF cmd.type = "ListProjects"
                THEN /\ Len(app'.projects) = Len(wanted)
                     /\ \A i \in 1..Len(wanted) :
                          /\ app'.projects[i].name = wanted[i]
                          /\ app'.projects[i].scripts = << >>
                          /\ added[i].type = "FindScripts"
                          /\ added[i].project_name = wanted[i]
                          /\ added[i].project_path = app'.projects[i].path
                ELSE /\ app'.projects = app.projects
                     /\ \A i \in 1..Len(wanted) :
                          /\ added[i].type = "ReadScript"
                          /\ added[i].project_name = cmd.project_name
                          /\ added[i].script_path = wanted[i]]_vars

\* a FindScripts result with a blank line between two paths was handled: the
\* two ReadScript commands of the project wait
C7_Witness ==
    /\ LastWas("FindScripts") /\ lastDispatched.ok
    /\ lastDispatched.cmd.project_name = "gamma"
    /\ Len(Waiting(app)) = 2
    /\ \A i \in 1..2 : /\ Waiting(app)[i].type = "ReadScript"
                       /\ Waiting(app)[i].project_name = "gamma"
    /\ Waiting(app)[1].script_path = "/root/clients/gamma/deploy.sh"
    /\ Waiting(app)[2].script_path = "/root/clients/gamma/run.sh"

RECURSIVE PathsFrom(_, _)
PathsFrom(projects, i) ==
    IF i > Len(projects) THEN << >>
    ELSE [j \in 1..Len(projects[i].files) |-> projects[i].files[j].path]
         \o PathsFrom(projects, i + 1)

Place(cmd) ==
    LET paths == PathsFrom(RemoteProjects(cmd.host), 1) IN
    CHOOSE n \in 1..Len(paths) : paths[n] = cmd.script_path

\* c is dispatched before d
InOrder(c, d) ==
    /\ (c.id > 0 /\ d.id > 0) => c.id < d.id
    /\ c.cycle = d.cycle => 
          /\ ~(c.type = "ReadScript" /\ d.type = "FindScripts")
          /\ (c.type = "ReadScript" /\ d.type = "ReadScript") => Place(c) < Place(d)

\* C9: the queued commands are dispatched in the order they were enqueued:
\* within one discovery cycle every FindScripts command is dispatched before
\* any ReadScript command, and the ReadScript commands in the order of the
\* project listing and, within a project, of the path listing.
C9_BreadthFirstOrder ==
    LET w == Waiting(app) IN
    /\ \A i, j \in 1..Len(w) : i < j => InOrder(w[i], w[j])
    /\ lastDispatched.cmd # None => \A i \in 1..Len(w) : InOrder(lastDispatched.cmd, w[i])

\* the FindScripts of the second project was dispatched while the ReadScript
\* of the first project waited: the ReadScript commands of both now wait in
\* the order of the projects
C9_Witness ==
    /\ LastWas("FindScripts") /\ lastDispatched.cmd.project_name = "beta"
    /\ Len(Waiting(app)) = 2
    /\ Waiting(app)[1].type = "ReadScript" /\ Waiting(app)[1].project_name = "alpha"
    /\ Waiting(app)[2].type = "ReadScript" /\ Waiting(app)[2].project_name = "beta"

EnvCalls == 1..Len(patch.ops)

\* the pieces of a text between its line feeds, byte for byte
RawLines(text) == Split(text, "\n")

\* the text has a -e flag for the key, in any of the forms extract_env_vars reads
HasEnvFlag(text, k) == HasKey(extract_env_vars(text), k)

\* C15: remove_env_var called for a key that has no -e flag in the text
\* returns the text unchanged, byte for byte.
C15_RemoveAbsentKeyIsIdentity ==
    \A i \in EnvCalls :
        (patch.ops[i].op = "remove" /\ ~HasEnvFlag(patch.texts[i], patch.ops[i].key))
        => patch.texts[i + 1] = patch.texts[i]

\* C14: for a text containing -e FOO="bar", update_env_var(text, "FOO", v)
\* yields a text with the same number of lines, and every line that differs
\* from the original is a line containing FOO: all others are byte-identical.
C14_UpdateTouchesOnlyTheKeyLine ==
    \A i \in EnvCalls :
        (/\ patch.ops[i].op = "update" /\ patch.ops[i].key = "FOO"
         /\ Contains(patch.texts[i], "-e FOO=\"bar\""))
        => LET before == RawLines(patch.texts[i])
               after == RawLines(patch.texts[i + 1])
           IN /\ Len(after) = Len(before)
              /\ \A j \in 1..Len(before) :
                    after[j] # before[j] => Contains(before[j], "FOO")

\* FOO="bar" was updated to another value in a text of several lines, after
\* a variable was added to it
C14_Witness ==
    /\ Len(patch.ops) = 2
    /\ patch.ops[1].op = "add"
    /\ patch.ops[2] = EnvOp("update", "FOO", "p q")
    /\ Contains(patch.texts[2], "-e FOO=\"bar\"")
    /\ Contains(patch.texts[3], "-e FOO=\"p q\"")
    /\ patch.texts[3] # patch.texts[2]
    /\ Len(RawLines(patch.texts[3])) > 3

\* the env-var set a text parses to
EnvSet(text) ==
    LET env_vars == extract_env_vars(text) IN { env_vars[j] : j \in 1..Len(env_vars) }

\* C16: for a key k that the text does not have,
\* remove_env_var(add_env_var(text, k, v), k) is a text whose parsed env-var
\* set equals the original text's, value for value (the raw text may differ),
\* whether the -e flags sit on their own lines or share a line with other
\* arguments.
C16_RemoveUndoesAdd ==
    \A i \in EnvCalls :
        (/\ i + 1 \in EnvCalls
         /\ patch.ops[i].op = "add"
         /\ patch.ops[i + 1].op = "remove"
         /\ patch.ops[i + 1].key = patch.ops[i].key
         /\ ~HasEnvFlag(patch.texts[i], patch.ops[i].key))
        => EnvSet(patch.texts[i + 2]) = EnvSet(patch.texts[i])

\* K was added to the text whose flags share the command's line, the text
\* then had the variable, and K was removed again
C16_Witness ==
    /\ Len(patch.ops) = 2
    /\ patch.texts[1] = EnvShared
    /\ patch.ops[1] = EnvOp("add", "K", "p q")
    /\ patch.ops[2] = EnvOp("remove", "K", "")
    /\ EnvVar("K", "p q") \in EnvSet(patch.texts[2])
    /\ EnvSet(patch.texts[1]) # {}
    /\ patch.texts[3] # patch.texts[1]

\* a value that the quoting rule wraps in double quotes
NeedsQuotes(v) ==
    \/ v = "" \/ Contains(v, " ") \/ Contains(v, "$") \/ Contains(v, "\\")
    \/ Contains(v, "\"") \/ Contains(v, "'") \/ Contains(v, "!")

\* the value in double quotes, its backslashes and double quotes escaped
QuotedForm(v) == "\"" \o Replace(Replace(v, "\\", "\\\\"), "\"", "\\\"") \o "\""

\* C17: in a text produced by add_env_var, update_env_var or generate_script,
\* a value that contains whitespace, $, a backslash, a quote character or !,
\* or is empty, stands in double quotes with its backslashes and double
\* quotes escaped.
C17_ValuesQuotedAndEscaped ==
    \A i \in EnvCalls :
        (/\ patch.ops[i].op \in {"add", "update", "generate"}
         /\ patch.ops[i].op = "add" => ~HasEnvFlag(patch.texts[i], patch.ops[i].key)
         /\ patch.ops[i].op = "update" => HasEnvFlag(patch.texts[i], patch.ops[i].key)
         /\ NeedsQuotes(patch.ops[i].value))
        => Contains(patch.texts[i + 1],
                    patch.ops[i].key \o "=" \o QuotedForm(patch.ops[i].value))

\* the -e flags of a text as one pattern of extract_env_vars reads them, from
\* position pos on: where each starts, its key and its value
RECURSIVE FlagsFrom(_, _, _)
FlagsAt(s, k, m) ==
    IF ~m.ok THEN {}
    ELSE {[start |-> m.start, pattern |-> k, key |-> Cap(s, m, 1), value |-> Cap(s, m, 2)]}
         \cup FlagsFrom(s, m.end, k)

FlagsFrom(s, pos, k) == FlagsAt(s, k, Find(s, pos, EnvPatterns[k]))

Flags(s) == UNION { FlagsFrom(s, 1, k) : k \in 1..Len(EnvPatterns) }

\* the first -e flag of the key in the text; where a quoted and the unquoted
\* pattern read the same flag, the quoted reading is the flag's value
FirstFlag(s, key) ==
    CHOOSE f \in Flags(s) :
        /\ f.key = key
        /\ \A g \in Flags(s) :
              g.key = key =>
                 \/ f.start < g.start
                 \/ f.start = g.start /\ f.pattern <= g.pattern

\* C18: the env-var list of parse_script has unique keys, and the value kept
\* for a key is that of the key's first -e flag in the text, whatever the
\* quoting of the first and of the later flags.
C18_FirstOccurrenceWins ==
    \A i \in 1..Len(patch.texts) :
        LET env_vars == parse_script(patch.texts[i], "/root/clients/p/start.sh", "p").env_vars
        IN /\ \A j, k \in 1..Len(env_vars) : env_vars[j].key = env_vars[k].key => j = k
           /\ \A j \in 1..Len(env_vars) :
                 env_vars[j].value = FirstFlag(patch.texts[i], env_vars[j].key).value

\* the commands the handled result appended to the queue
Enqueued == SubSeq(Handled.pending_docker_commands,
                   Len(app.pending_docker_commands) + 1,
                   Len(Handled.pending_docker_commands))

WriteCommandOf(a, script) == sudo_cmd(a, write_script_command(script.path, script.raw_content))

\* C13: once save_current_script has put the WriteScript command into the
\* slot, the flat script list has an entry for the command's path whose
\* raw_content is the text the command carries, for an existing and for a
\* brand-new script alike; and handling the WriteScript result changes the
\* status message only.
C13_SaveUpdatesInventoryFirst ==
    [][/\ (/\ app'.pending_ssh_command # None
           /\ app'.pending_ssh_command.type = "WriteScript"
           /\ app'.pending_ssh_command # app.pending_ssh_command)
          => \E i \in 1..Len(app'.scripts) :
                /\ app'.scripts[i].path = app'.pending_ssh_command.script_path
                /\ app'.pending_ssh_command.command = WriteCommandOf(app', app'.scripts[i])
       /\ (DispatchedOk /\ app.pending_ssh_command.type = "WriteScript")
          => [Handled EXCEPT !.status_message = Taken.status_message] = Taken]_vars

\* the saved associations of a container of the connected host
SavedFor(a, c) ==
    { e \in a.metadata : /\ e.host = Hosts[a.current_docker_host_index].host
                         /\ e.container = c.name }

\* the positions of the discovered scripts that name the container
NamedFor(a, c) == { j \in 1..Len(a.scripts) : a.scripts[j].container_name = c.name }

\* C12: after the result of a DockerPs or of an accepted ReadScript is
\* handled, each container's script path is the saved association of (host,
\* container name) if there is one, otherwise the path of the first
\* discovered script whose container name is the container's name, otherwise
\* none.
C12_AssociationPrefersSaved ==
    [][(/\ DispatchedOk
        /\ \/ app.pending_ssh_command.type = "DockerPs"
           \/ /\ app.pending_ssh_command.type = "ReadScript"
              /\ Len(app'.scripts) = Len(app.scripts) + 1)
       => \A i \in 1..Len(app'.containers) :
             LET c == app'.containers[i] IN
             IF SavedFor(app', c) # {}
             THEN \E e \in SavedFor(app', c) : c.script_path = e.path
             ELSE IF NamedFor(app', c) # {}
             THEN \E j \in NamedFor(app', c) :
                     /\ c.script_path = app'.scripts[j].path
                     /\ \A k \in NamedFor(app', c) : j <= k
             ELSE c.script_path = NoPath]_vars

\* the script of project alpha that names container api was accepted on host
\* prod while a saved association gives api another path: api has the saved
\* path, web has none
C12_Witness ==
    /\ LastWas("ReadScript") /\ lastDispatched.ok
    /\ app.current_docker_host_index = 1
    /\ Len(app.containers) = 2
    /\ \E j \in 1..Len(app.scripts) :
          /\ app.scripts[j].container_name = "api"
          /\ app.scripts[j].path = "/root/clients/alpha/start.sh"
    /\ app.containers[1].name = "api"
    /\ app.containers[1].script_path = "/root/clients/beta/run.sh"
    /\ app.containers[2].script_path = NoPath

\* this step ran refresh_containers: a new discovery pass on the connected host
Refreshed ==
    /\ app.current_docker_host_index # 0
    /\ app'.current_docker_host_index = app.current_docker_host_index
    /\ app'.cycle # app.cycle

\* this step handled the result of a discovery command
DiscoveryHandled ==
    DispatchedOk /\ app.pending_ssh_command.type \in QueueTypes \cup {"DockerPs"}

\* this step ran docker_go_back
Disconnected == app.current_docker_host_index # 0 /\ app'.current_docker_host_index = 0

Connected == app.current_docker_host_index = 0 /\ app'.current_docker_host_index # 0

\* C20: docker_go_back leaves the containers, the projects and the scripts
\* empty, the slot empty and the queue empty; after a later
\* start_fetching_containers the only pending commands are the DockerPs of
\* the new connection, in the slot, and its ListProjects, in the queue; and
\* every result that is handled belongs to a command of the connected host.
C20_DisconnectTearsDown ==
    [][/\ Disconnected =>
             /\ app'.containers = << >> /\ app'.projects = << >> /\ app'.scripts = << >>
             /\ app'.pending_ssh_command = None
             /\ app'.pending_docker_commands = << >>
       /\ Connected =>
             /\ app'.pending_ssh_command # None
             /\ app'.pending_ssh_command.type = "DockerPs"
             /\ app'.pending_ssh_command.host = app'.current_docker_host_index
             /\ app'.pending_ssh_command.cycle = app'.cycle
             /\ Len(app'.pending_docker_commands) = 1
             /\ app'.pending_docker_commands[1].type = "ListProjects"
             /\ app'.pending_docker_commands[1].host = app'.current_docker_host_index
             /\ app'.pending_docker_commands[1].cycle = app'.cycle
             /\ app'.containers = << >> /\ app'.projects = << >> /\ app'.scripts = << >>
       /\ Dispatched =>
             /\ app.pending_ssh_command.host = app.current_docker_host_index
             /\ app.pending_ssh_command.cycle <= app.cycle]_vars

\* docker mode was left on host prod, where a script had been saved for
\* container web; docker mode was entered again on host edge, whose
\* discovery has run to its ReadScript
C20_Witness ==
    /\ connects = 2
    /\ app.current_docker_host_index = 3
    /\ \E e \in app.metadata : e.host = "prod" /\ e.path = "~/clients/web/startWeb.sh"
    /\ LastWas("ReadScript") /\ lastDispatched.ok
    /\ lastDispatched.cmd.host = 3
    /\ Len(app.scripts) = 1
    /\ app.scripts[1].path = "/root/clients/shop/start.sh"
    /\ app.containers = << >>

\* ------------------------------------------------------------------------
\* Properties of the output parsers (SpecParse)
\* ------------------------------------------------------------------------

\* function fn was applied to its input
Applied(fn) == patch.done /\ patch.call.fn = fn

\* the text between the first "(" of s and the next ")" (or the end of s),
\* when s has a "("
HasParen(s) == FindFrom(s, "(", 1) > 0
AfterParen(s) == SubSeq(s, FindFrom(s, "(", 1) + 1, Len(s))
InParens(s) ==
    IF FindFrom(AfterParen(s), ")", 1) > 0
    THEN SubSeq(AfterParen(s), 1, FindFrom(AfterParen(s), ")", 1) - 1)
    ELSE AfterParen(s)

\* the number between the parentheses
CodeIn(s) == ParseNat(InParens(s), 1, 0, I32Max)

\* s carries a parenthesized number that fits an exit code
HasNumericCode(s) == HasParen(s) /\ AllDigits(InParens(s)) /\ CodeIn(s) >= 0

\* C22: from_docker_status classifies the status text without regard to case,
\* the rules taken in the order given: a text that starts with "up" is
\* Running; else one that starts with "exited" is Exited(code) when a
\* parenthesized numeric code is present and Stopped otherwise; else one that
\* contains "paused", "restarting" or "dead" is Paused, Restarting or Dead;
\* any other text is Unknown and carries the raw text.
C22_StatusClassified ==
    Applied("from_docker_status") =>
        LET raw == patch.call.input
            low == ToLower(raw)
            out == patch.out
        IN  IF StartsWith(low, "up") THEN out = Status("Running", 0, "")
            ELSE IF StartsWith(low, "exited")
            THEN (IF HasNumericCode(low)
                  THEN out = Status("Exited", CodeIn(low), "")
                  ELSE out = Status("Stopped", 0, ""))
            ELSE IF Contains(low, "paused") THEN out = Status("Paused", 0, "")
            ELSE IF Contains(low, "restarting") THEN out = Status("Restarting", 0, "")
            ELSE IF Contains(low, "dead") THEN out = Status("Dead", 0, "")
            ELSE out = Status("Unknown", 0, raw)

\* an upper-case "EXITED (137) 2 days ago" was classified as Exited(137)
C22_Witness ==
    /\ Applied("from_docker_status")
    /\ patch.call.input = "EXITED (137) 2 days ago"
    /\ patch.out = Status("Exited", 137, "")

\* the first line from i on that carries the label, 0 when there is none
RECURSIVE FirstWith(_, _, _)
FirstWith(lines, label, i) ==
    IF i > Len(lines) THEN 0
    ELSE IF Contains(lines[i], "\"" \o label \o "\":") THEN i
    ELSE FirstWith(lines, label, i + 1)

\* the value of the first line of the output that carries the label
FirstValue(output, label) ==
    IF FirstWith(Lines(output), label, 1) = 0 THEN ""
    ELSE extract_json_value(Trim(Lines(output)[FirstWith(Lines(output), label, 1)]))

\* C23: parse_docker_inspect keeps, for each of the labels Id, Name, Image,
\* Status, Created, StartedAt and IPAddress, the value of the first line that
\* carries the label; later lines with the same label do not overwrite it.
C23_FirstMatchWins ==
    Applied("parse_docker_inspect") =>
        /\ patch.out.id = FirstValue(patch.call.input, "Id")
        /\ patch.out.name = TrimStartMatches(FirstValue(patch.call.input, "Name"), "/")
        /\ patch.out.image = FirstValue(patch.call.input, "Image")
        /\ patch.out.status = FirstValue(patch.call.input, "Status")
        /\ patch.out.created = FirstValue(patch.call.input, "Created")
        /\ patch.out.started = FirstValue(patch.call.input, "StartedAt")
        /\ patch.out.ip_address = FirstValue(patch.call.input, "IPAddress")

\* the pipe-delimited fields of the first line of the output; an empty line
\* has none
FieldsOf(output) ==
    IF FirstLine(output) = "" THEN << >> ELSE Split(FirstLine(output), "|")

\* C24: parse_docker_stats never fails, and when the first line of its input
\* has fewer than six pipe-delimited fields, empty output included, every
\* missing field (cpu, memory usage, memory limit, memory percent, net I/O,
\* block I/O, pids) is the placeholder "--".
C24_MissingFieldsAreDashes ==
    Applied("parse_docker_stats") =>
        LET n == Len(FieldsOf(patch.call.input)) IN
        /\ n < 1 => patch.out.cpu_percent = "--"
        /\ n < 2 => patch.out.memory_usage = "--" /\ patch.out.memory_limit = "--"
        /\ n < 3 => patch.out.memory_percent = "--"
        /\ n < 4 => patch.out.net_io = "--"
        /\ n < 5 => patch.out.block_io = "--"
        /\ n < StatsFields => patch.out.pids = "--"

\* the body of the heredoc of a write command: what stands between the line
\* feed of the opening line and the line feed before the closing delimiter
HeredocBody(command) ==
    SubSeq(command, FindFrom(command, "\n", 1) + 1,
           FindFrom(command, "\nDOCKERING_SCRIPT_EOF", 1) - 1)

\* C30: write_script_command(path, content) carries content unmodified as the
\* body of its quoted heredoc: what stands between the opening
\* cat > '<path>' << '<delimiter>' line and the closing delimiter equals
\* content character for character, single quotes included.
C30_HeredocBodyIsContent ==
    Applied("write_script_command") =>
        /\ StartsWith(patch.out, "cat > '" \o patch.call.path
                                 \o "' << 'DOCKERING_SCRIPT_EOF'\n")
        /\ HeredocBody(patch.out) = patch.call.input

\* ------------------------------------------------------------------------
\* Properties of the env-var functions, second part (SpecEnv)
\* ------------------------------------------------------------------------

\* the lines of a text that carry the flag -e key=
FlagLines(text, key) ==
    { j \in 1..Len(Lines(text)) : IsMatch(Trim(Lines(text)[j]), RemovePattern(key)) }

\* line j of the text ends with a continuation backslash
EndsContinued(text, j) == EndsWith(TrimEnd(Lines(text)[j]), "\\")

\* continued content of the invocation follows line j: the line hands over
\* to a next line, and that line is not blank
ContentFollows(text, j) ==
    /\ EndsContinued(text, j)
    /\ j < Len(Lines(text))
    /\ Trim(Lines(text)[j + 1]) # ""

\* call i removed a key whose flag stands on one line j of its own, after a
\* line that ends with a backslash
RemovedOwnLine(i, j) ==
    /\ patch.ops[i].op = "remove"
    /\ FlagLines(patch.texts[i], patch.ops[i].key) = {j}
    /\ j > 1
    /\ StartsWith(Trim(Lines(patch.texts[i])[j]), "-e")
    /\ EndsContinued(patch.texts[i], j - 1)

\* C25: when remove_env_var deletes a -e KEY= line, the line before it loses
\* its trailing backslash exactly when no continued content of the invocation
\* follows the deleted line; when an argument line still follows (another
\* flag, $REPO, or a bare image name) the line before keeps its backslash.
C25_BackslashKeptWhileContentFollows ==
    \A i \in EnvCalls :
        \A j \in 1..Len(Lines(patch.texts[i])) :
            RemovedOwnLine(i, j) =>
                (EndsContinued(patch.texts[i + 1], j - 1)
                    <=> ContentFollows(patch.texts[i], j))

\* the last line of the text that passes a test, 0 when none does
LastLineWith(text, Test(_)) ==
    IF \E j \in 1..Len(Lines(text)) : Test(Trim(Lines(text)[j]))
    THEN MaxOf({ j \in 1..Len(Lines(text)) : Test(Trim(Lines(text)[j])) })
    ELSE 0

\* the final image or $REPO argument line: the last line that a continued
\* line hands over to and that does not itself go on
FinalArgumentLine(text) ==
    IF \E j \in 2..Len(Lines(text)) :
          EndsContinued(text, j - 1) /\ ~EndsContinued(text, j) /\ Trim(Lines(text)[j]) # ""
    THEN MaxOf({ j \in 2..Len(Lines(text)) :
                   EndsContinued(text, j - 1) /\ ~EndsContinued(text, j)
                   /\ Trim(Lines(text)[j]) # "" })
    ELSE 0

\* where the new line belongs: after the last -e line, else after the last
\* flag line (after |-> TRUE), else before the final argument line
AnchorOf(text) ==
    IF LastLineWith(text, IsEnvLine) > 0
    THEN [line |-> LastLineWith(text, IsEnvLine), after |-> TRUE]
    ELSE IF LastLineWith(text, IsFlagLine) > 0
    THEN [line |-> LastLineWith(text, IsFlagLine), after |-> TRUE]
    ELSE [line |-> FinalArgumentLine(text), after |-> FALSE]

\* the new line at position pos of the result, for the anchor of the text
AddedAt(text, result, pos, anchor, key, value) ==
    /\ Len(Lines(result)) = Len(Lines(text)) + 1
    /\ Stripped(Lines(result)[pos])
         = IndentOf(Lines(text)[anchor.line]) \o "-e " \o key \o "="
           \o escape_shell_value(value)
    /\ EndsContinued(result, pos) <=> (~anchor.after \/ EndsContinued(text, anchor.line))

\* C26: add_env_var puts the new -e KEY=VALUE line right after the last -e
\* line if there is one, else right after the last recognized flag line, else
\* right before the final image/$REPO argument line; the new line has the
\* indentation of its anchor and ends with a continuation backslash unless
\* it is the new last line of the invocation.
C26_AddedLineAnchored ==
    \A i \in EnvCalls :
        (/\ patch.ops[i].op = "add"
         /\ ~HasEnvFlag(patch.texts[i], patch.ops[i].key)
         /\ AnchorOf(patch.texts[i]).line > 0)
        => AddedAt(patch.texts[i], patch.texts[i + 1],
                   IF AnchorOf(patch.texts[i]).after
                   THEN AnchorOf(patch.texts[i]).line + 1
                   ELSE AnchorOf(patch.texts[i]).line,
                   AnchorOf(patch.texts[i]), patch.ops[i].key, patch.ops[i].value)

\* ------------------------------------------------------------------------
\* Properties of the patch function, second part (SpecPatch)
\* ------------------------------------------------------------------------

\* the values the variables of a list have for key k
ValuesOf(env_vars, k) ==
    { env_vars[i].value : i \in { j \in 1..Len(env_vars) : env_vars[j].key = k } }

\* the keys that stand once in the list
KeysOnce(env_vars) ==
    { env_vars[i].key : i \in { j \in 1..Len(env_vars) :
        \A h \in 1..Len(env_vars) : env_vars[h].key = env_vars[j].key => h = j } }

\* C29: patching preserves values: for every key k that apply_script_changes
\* updates or adds with value v (an update with the old value included),
\* parsing the output again with parse_script yields k with the value v,
\* also for values with $, backslashes, double quotes or blanks.
C29_PatchedValuesReadBack ==
    (patch # None /\ patch.applied) =>
        \A k \in KeysOnce(patch.script.env_vars) :
            ValuesOf(parse_script(patch.output, patch.script.path,
                                  patch.script.client_name).env_vars, k)
              = ValuesOf(patch.script.env_vars, k)

\* ------------------------------------------------------------------------
\* Properties of docker mode, third part (Spec, SpecScript)
\* ------------------------------------------------------------------------

\* the flat script list has a script with the path
InScripts(a, path) == \E i \in 1..Len(a.scripts) : a.scripts[i].path = path

\* the containers that have a script path
WithScript(a) == { i \in 1..Len(a.containers) : a.containers[i].script_path # NoPath }

\* C27: whenever a container has an associated script path, a script with
\* that path is in the flat script list, so that edit_script on the
\* container opens the editor; stated for the states in which no command is
\* waiting, after any sequence of connect, refresh, discovery results and
\* save_current_script.
C27_AssociatedScriptIsListed ==
    Quiescent(app) =>
        \A i \in WithScript(app) : InScripts(app, app.containers[i].script_path)

\* no key stands twice in the list
KeysDistinct(env_vars) ==
    \A i, j \in 1..Len(env_vars) : env_vars[i].key = env_vars[j].key => i = j

\* C28: in the script editor the env-var keys of the script being edited stay
\* pairwise distinct after any sequence of start_add_env_var,
\* start_edit_env_var, save_env_var, cancel_env_var_edit and
\* remove_env_var_from_current_script (the scripts that edit_script opens
\* come from parse_script, whose keys are distinct).
C28_EditedKeysDistinct ==
    app.mode.name \in {"ScriptEdit", "EnvVarEditor"}
        => KeysDistinct(app.mode.editing_script.env_vars)

\* ------------------------------------------------------------------------
\* Properties of the file browsers (SpecBrowse)
\* ------------------------------------------------------------------------

\* this step hands the result of a directory listing to the application
ListingDispatched ==
    /\ lastDispatched'.tick # lastDispatched.tick
    /\ lastDispatched'.cmd.type \in {"ListDirectory", "RsyncListDirectory"}

\* the browser a listing is meant for
BrowserFor(type) == IF type = "ListDirectory" THEN "FileBrowser" ELSE "RsyncFileBrowser"

\* the mode is the browser of the command, and shows the listed path
Shows(a, cmd) == a.mode.name = BrowserFor(cmd.type) /\ a.mode.current_path = cmd.path

\* the mode once the listing is shown
ListingShown(mode, cmd) ==
    [mode EXCEPT !.entries = parse_directory_listing(RemoteOutput(cmd.host, cmd), cmd.path),
                 !.loading = FALSE]

\* C21: the result of a directory listing is handed only to the browser that
\* shows the listed path: a ListDirectory result to the mode FileBrowser, an
\* RsyncListDirectory result to the mode RsyncFileBrowser; when the operator
\* has moved away from that view the result is discarded, and the mode, its
\* entries and its path stay as they are.
C21_ListingOnlyForItsBrowser ==
    [][ListingDispatched =>
          IF Shows(app, lastDispatched'.cmd)
          THEN app'.mode = ListingShown(app.mode, lastDispatched'.cmd)
          ELSE app'.mode = app.mode]_vars

====
